---- MODULE Spec2Model ----
(***************************************************************************)
(* ATS compatibility scoring of the resume backend: ResumeService's        *)
(* calculateATSScore facade, its AI strategy and its rule-based fallback,  *)
(* with the text utilities they share.                                     *)
(*                                                                         *)
(* Text is a sequence of one-character strings, so that lowercasing,       *)
(* splitting, trimming, substring tests and the regular expressions of the *)
(* source are computed character by character.  Numbers are exact          *)
(* rationals with a NaN flag (JavaScript numbers; Math.round, Math.min and *)
(* Math.max propagate NaN as they do in the source's runtime).             *)
(***************************************************************************)
EXTENDS Integers, Sequences, FiniteSets, TLC

(***************************************************************************)
(* Characters and strings                                                  *)
(***************************************************************************)
ToLower ==
  [A |-> "a", B |-> "b", C |-> "c", D |-> "d", E |-> "e", F |-> "f", G |-> "g",
   H |-> "h", I |-> "i", J |-> "j", K |-> "k", L |-> "l", M |-> "m", N |-> "n",
   O |-> "o", P |-> "p", Q |-> "q", R |-> "r", S |-> "s", T |-> "t", U |-> "u",
   V |-> "v", W |-> "w", X |-> "x", Y |-> "y", Z |-> "z"]

LowerLetters == {ToLower[c] : c \in DOMAIN ToLower}

Digits == {"0", "1", "2", "3", "4", "5", "6", "7", "8", "9"}

\* String.prototype.toLowerCase on one character
LowerChar(c) == IF c \in DOMAIN ToLower THEN ToLower[c] ELSE c

\* String.prototype.toLowerCase
toLowerCase(s) == [i \in 1..Len(s) |-> LowerChar(s[i])]

\* the regular-expression class [a-z] under the i flag
IsLetter(c) == LowerChar(c) \in LowerLetters

\* the regular-expression class \w
IsWordChar(c) == IsLetter(c) \/ c \in Digits \/ c = "_"

\* the regular-expression class \s
IsSpace(c) == c \in {" ", "\n", "\t", "\r"}

Min(a, b) == IF a <= b THEN a ELSE b

\* Array.prototype.slice(0, n)
Take(s, n) == SubSeq(s, 1, Min(n, Len(s)))

\* Array.prototype.includes on a sequence
Contains(s, x) == \E i \in DOMAIN s : s[i] = x

\* String.prototype.includes: b occurs in a as a substring
includes(a, b) ==
  \E i \in 0..(Len(a) - Len(b)) : SubSeq(a, i + 1, i + Len(b)) = b

\* String.prototype.trim
trim(s) ==
  IF \A i \in DOMAIN s : IsSpace(s[i]) THEN <<>>
  ELSE SubSeq(s,
              CHOOSE i \in DOMAIN s :
                ~IsSpace(s[i]) /\ \A j \in 1..(i - 1) : IsSpace(s[j]),
              CHOOSE i \in DOMAIN s :
                ~IsSpace(s[i]) /\ \A j \in (i + 1)..Len(s) : IsSpace(s[j]))

\* the least element of a non-empty set of integers
Least(S) == CHOOSE x \in S : \A y \in S : x <= y

\* the indices of s, in order
Indices(s) == [i \in 1..Len(s) |-> i]

\* the elements of s at the indices idx (a sequence), in that order
At(s, idx) == [k \in DOMAIN idx |-> s[idx[k]]]

\* [...new Set(s)]: the first occurrence of every element, in order
Dedup(s) ==
  At(s, SelectSeq(Indices(s), LAMBDA i : \A j \in 1..(i - 1) : s[j] # s[i]))

\* Array.prototype.join: the pieces of parts with sep between them
RECURSIVE Join(_, _)
Join(parts, sep) ==
  IF parts = <<>> THEN <<>>
  ELSE IF Len(parts) = 1 THEN parts[1]
  ELSE parts[1] \o sep \o Join(Tail(parts), sep)

\* Array.prototype.flatMap(x => x): the concatenation of a sequence of sequences
RECURSIVE Flatten(_)
Flatten(ss) == IF ss = <<>> THEN <<>> ELSE Head(ss) \o Flatten(Tail(ss))

\* the pieces of s from the indices starts to the indices ends, pairwise
Pieces(s, starts, ends) == [k \in DOMAIN starts |-> SubSeq(s, starts[k], ends[k])]

\* the words of s: its maximal runs without whitespace, in order (each runs
\* from an index with no whitespace after whitespace to one before whitespace)
Words(s) ==
  Pieces(s,
         SelectSeq(Indices(s),
                   LAMBDA i : ~IsSpace(s[i]) /\ (i = 1 \/ IsSpace(s[i - 1]))),
         SelectSeq(Indices(s),
                   LAMBDA i : ~IsSpace(s[i]) /\ (i = Len(s) \/ IsSpace(s[i + 1]))))

\* String.prototype.split(/\s+/): the words, with an empty piece before
\* leading and after trailing whitespace; [''] for the empty string
SplitSpace(s) ==
  IF s = <<>> THEN << <<>> >>
  ELSE (IF IsSpace(s[1]) THEN << <<>> >> ELSE <<>>)
       \o Words(s)
       \o (IF IsSpace(s[Len(s)]) THEN << <<>> >> ELSE <<>>)

\* the bullet character U+2022, as one character of a text
Bullet == "<U+2022>"

\* the separators of split(/[,\n<U+2022>\-\*\|]/)
IsSkillSeparator(c) == c \in {",", "\n", Bullet, "-", "*", "|"}

\* String.prototype.split on a one-character class: every separator splits,
\* so n separators give n + 1 pieces, empty ones included
SplitAt(s, cuts) ==
  [k \in 1..(Len(cuts) + 1) |->
     SubSeq(s,
            (IF k = 1 THEN 0 ELSE cuts[k - 1]) + 1,
            (IF k = Len(cuts) + 1 THEN Len(s) + 1 ELSE cuts[k]) - 1)]

SplitSkills(s) ==
  SplitAt(s, SelectSeq(Indices(s), LAMBDA i : IsSkillSeparator(s[i])))

\* the set of the elements of a sequence
Range(s) == {s[i] : i \in DOMAIN s}

\* the literal lit (lowercase) matches s at index i, ignoring case
MatchAt(s, i, lit) ==
  /\ i >= 1
  /\ i + Len(lit) - 1 <= Len(s)
  /\ \A k \in 1..Len(lit) : LowerChar(s[i + k - 1]) = lit[k]


(***************************************************************************)
(* Numbers                                                                 *)
(***************************************************************************)
RECURSIVE Gcd(_, _)
Gcd(a, b) == IF b = 0 THEN a ELSE Gcd(b, a % b)

Abs(a) == IF a < 0 THEN -a ELSE a

\* the number n/d, in lowest terms
Rat(n, d) ==
  [nan |-> FALSE, num |-> n \div Gcd(Abs(n), d), den |-> d \div Gcd(Abs(n), d)]

Num(n) == [nan |-> FALSE, num |-> n, den |-> 1]

NaN == [nan |-> TRUE, num |-> 0, den |-> 1]

\* a / b of two integers, a >= 0; 0 / 0 is NaN (a > 0 never meets b = 0 here)
Div(a, b) == IF b = 0 THEN NaN ELSE Rat(a, b)

Times(x, y) ==
  IF x.nan \/ y.nan THEN NaN ELSE Rat(x.num * y.num, x.den * y.den)

Plus(x, y) ==
  IF x.nan \/ y.nan THEN NaN
  ELSE Rat(x.num * y.den + y.num * x.den, x.den * y.den)

Less(x, y) == x.num * y.den < y.num * x.den

\* Math.max and Math.min: NaN if either argument is NaN
MathMax(x, y) == IF x.nan \/ y.nan THEN NaN ELSE IF Less(x, y) THEN y ELSE x

MathMin(x, y) == IF x.nan \/ y.nan THEN NaN ELSE IF Less(y, x) THEN y ELSE x

\* Math.round: the nearest integer, halves upwards; NaN stays NaN
MathRound(x) ==
  IF x.nan THEN NaN ELSE Num((2 * x.num + x.den) \div (2 * x.den))

\* x || 0 on a number: NaN and 0 are falsy
OrZero(x) == IF x.nan THEN Num(0) ELSE x

IsInteger(x) == ~x.nan /\ x.den = 1

(***************************************************************************)
(* Text normalisation and keyword extraction                               *)
(***************************************************************************)
\* the stopWords of normalizeText
stopWords ==
  {<<"a">>, <<"a","n">>, <<"a","n","d">>, <<"a","r","e">>, <<"a","s">>, <<"a","t">>, <<"b","e">>, <<"b","y">>, <<"f","o","r">>, <<"f","r","o","m">>,
   <<"h","a","s">>, <<"h","e">>, <<"i","n">>, <<"i","s">>, <<"i","t">>, <<"i","t","s">>, <<"o","f">>, <<"o","n">>, <<"t","h","a","t">>, <<"t","h","e">>,
   <<"t","o">>, <<"w","a","s">>, <<"w","e","r","e">>, <<"w","i","l","l">>, <<"w","i","t","h">>, <<"t","h","i","s">>, <<"b","u","t">>, <<"t","h","e","y">>,
   <<"h","a","v","e">>, <<"h","a","d">>, <<"w","h","a","t">>, <<"s","a","i","d">>, <<"e","a","c","h">>, <<"w","h","i","c","h">>, <<"t","h","e","i","r">>, <<"t","i","m","e">>,
   <<"i","f">>, <<"u","p">>, <<"o","u","t">>, <<"m","a","n","y">>, <<"t","h","e","n">>, <<"t","h","e","m">>, <<"t","h","e","s","e">>, <<"s","o">>, <<"s","o","m","e">>,
   <<"h","e","r">>, <<"w","o","u","l","d">>, <<"m","a","k","e">>, <<"l","i","k","e">>, <<"i","n","t","o">>, <<"h","i","m">>, <<"t","w","o">>, <<"m","o","r","e">>,
   <<"v","e","r","y">>, <<"a","f","t","e","r">>, <<"w","o","r","d","s">>, <<"l","o","n","g">>, <<"t","h","a","n">>, <<"f","i","r","s","t">>, <<"b","e","e","n">>, <<"c","a","l","l">>,
   <<"w","h","o">>, <<"o","i","l">>, <<"s","i","t">>, <<"n","o","w">>, <<"f","i","n","d">>, <<"d","o","w","n">>, <<"d","a","y">>, <<"d","i","d">>, <<"g","e","t">>,
   <<"c","o","m","e">>, <<"m","a","d","e">>, <<"m","a","y">>, <<"p","a","r","t">>, <<"o","v","e","r">>, <<"n","e","w">>, <<"s","o","u","n","d">>, <<"t","a","k","e">>,
   <<"o","n","l","y">>, <<"l","i","t","t","l","e">>, <<"w","o","r","k">>, <<"k","n","o","w">>, <<"p","l","a","c","e">>, <<"y","e","a","r">>, <<"l","i","v","e">>, <<"m","e">>,
   <<"b","a","c","k">>, <<"g","i","v","e">>, <<"m","o","s","t">>, <<"t","h","i","n","g">>, <<"o","u","r">>, <<"j","u","s","t">>, <<"n","a","m","e">>, <<"g","o","o","d">>,
   <<"s","e","n","t","e","n","c","e">>, <<"m","a","n">>, <<"t","h","i","n","k">>, <<"s","a","y">>, <<"g","r","e","a","t">>, <<"w","h","e","r","e">>, <<"h","e","l","p">>,
   <<"t","h","r","o","u","g","h">>, <<"m","u","c","h">>, <<"b","e","f","o","r","e">>, <<"l","i","n","e">>, <<"r","i","g","h","t">>, <<"t","o","o">>, <<"m","e","a","n","s">>,
   <<"o","l","d">>, <<"a","n","y">>, <<"s","a","m","e">>, <<"t","e","l","l">>, <<"b","o","y">>, <<"f","o","l","l","o","w">>, <<"c","a","m","e">>, <<"w","a","n","t">>,
   <<"s","h","o","w">>, <<"a","l","s","o">>, <<"a","r","o","u","n","d">>, <<"f","o","r","m">>, <<"t","h","r","e","e">>, <<"s","m","a","l","l">>, <<"s","e","t">>, <<"p","u","t">>,
   <<"e","n","d">>, <<"d","o","e","s">>, <<"a","n","o","t","h","e","r">>, <<"w","e","l","l">>, <<"l","a","r","g","e">>, <<"m","u","s","t">>, <<"b","i","g">>, <<"e","v","e","n">>,
   <<"s","u","c","h">>, <<"b","e","c","a","u","s","e">>, <<"t","u","r","n">>, <<"h","e","r","e">>, <<"w","h","y">>, <<"a","s","k">>, <<"w","e","n","t">>, <<"m","e","n">>,
   <<"r","e","a","d">>, <<"n","e","e","d">>, <<"l","a","n","d">>, <<"d","i","f","f","e","r","e","n","t">>, <<"h","o","m","e">>, <<"u","s">>, <<"m","o","v","e">>, <<"t","r","y">>,
   <<"k","i","n","d">>, <<"h","a","n","d">>, <<"p","i","c","t","u","r","e">>, <<"a","g","a","i","n">>, <<"c","h","a","n","g","e">>, <<"o","f","f">>, <<"p","l","a","y">>,
   <<"s","p","e","l","l">>, <<"a","i","r">>, <<"a","w","a","y">>, <<"a","n","i","m","a","l">>, <<"h","o","u","s","e">>, <<"p","o","i","n","t">>, <<"p","a","g","e">>,
   <<"l","e","t","t","e","r">>, <<"m","o","t","h","e","r">>, <<"a","n","s","w","e","r">>, <<"f","o","u","n","d">>, <<"s","t","u","d","y">>, <<"s","t","i","l","l">>, <<"l","e","a","r","n">>,
   <<"s","h","o","u","l","d">>, <<"a","m","e","r","i","c","a">>, <<"w","o","r","l","d">>, <<"h","i","g","h">>, <<"e","v","e","r","y">>, <<"n","e","a","r">>, <<"a","d","d">>,
   <<"f","o","o","d">>, <<"b","e","t","w","e","e","n">>, <<"o","w","n">>, <<"b","e","l","o","w">>, <<"c","o","u","n","t","r","y">>, <<"p","l","a","n","t">>, <<"l","a","s","t">>,
   <<"s","c","h","o","o","l">>, <<"f","a","t","h","e","r">>, <<"k","e","e","p">>, <<"t","r","e","e">>, <<"n","e","v","e","r">>, <<"s","t","a","r","t">>, <<"c","i","t","y">>,
   <<"e","a","r","t","h">>, <<"e","y","e">>, <<"l","i","g","h","t">>, <<"t","h","o","u","g","h","t">>, <<"h","e","a","d">>, <<"u","n","d","e","r">>, <<"s","t","o","r","y">>,
   <<"s","a","w">>, <<"l","e","f","t">>, <<"d","o","n","'","t">>, <<"f","e","w">>, <<"w","h","i","l","e">>, <<"a","l","o","n","g">>, <<"m","i","g","h","t">>, <<"c","l","o","s","e">>,
   <<"s","o","m","e","t","h","i","n","g">>, <<"s","e","e","m">>, <<"n","e","x","t">>, <<"h","a","r","d">>, <<"o","p","e","n">>, <<"e","x","a","m","p","l","e">>, <<"b","e","g","i","n">>,
   <<"l","i","f","e">>, <<"a","l","w","a","y","s">>, <<"t","h","o","s","e">>, <<"b","o","t","h">>, <<"p","a","p","e","r">>, <<"t","o","g","e","t","h","e","r">>, <<"g","o","t">>,
   <<"g","r","o","u","p">>, <<"o","f","t","e","n">>, <<"r","u","n">>, <<"i","m","p","o","r","t","a","n","t">>, <<"u","n","t","i","l">>, <<"c","h","i","l","d","r","e","n">>, <<"s","i","d","e">>,
   <<"f","e","e","t">>, <<"c","a","r">>, <<"m","i","l","e">>, <<"n","i","g","h","t">>, <<"w","a","l","k">>, <<"w","h","i","t","e">>, <<"s","e","a">>, <<"b","e","g","a","n">>,
   <<"g","r","o","w">>, <<"t","o","o","k">>, <<"r","i","v","e","r">>, <<"f","o","u","r">>, <<"c","a","r","r","y">>, <<"s","t","a","t","e">>, <<"o","n","c","e">>, <<"b","o","o","k">>,
   <<"h","e","a","r">>, <<"s","t","o","p">>, <<"w","i","t","h","o","u","t">>, <<"s","e","c","o","n","d">>, <<"l","a","t","e","r">>, <<"m","i","s","s">>, <<"i","d","e","a">>,
   <<"e","n","o","u","g","h">>, <<"e","a","t">>, <<"f","a","c","e">>, <<"w","a","t","c","h">>, <<"f","a","r">>, <<"i","n","d","i","a","n">>, <<"r","e","a","l">>,
   <<"a","l","m","o","s","t">>, <<"l","e","t">>, <<"a","b","o","v","e">>, <<"g","i","r","l">>, <<"s","o","m","e","t","i","m","e","s">>, <<"m","o","u","n","t","a","i","n">>, <<"c","u","t">>,
   <<"y","o","u","n","g">>, <<"t","a","l","k">>, <<"s","o","o","n">>, <<"l","i","s","t">>, <<"s","o","n","g">>, <<"l","e","a","v","e">>, <<"f","a","m","i","l","y">>, <<"i","t","'","s">>}

\* the techTerms of extractKeywords
techTerms ==
  {<<"j","a","v","a","s","c","r","i","p","t">>, <<"p","y","t","h","o","n">>, <<"j","a","v","a">>, <<"t","y","p","e","s","c","r","i","p","t">>, <<"r","e","a","c","t">>, <<"a","n","g","u","l","a","r">>,
   <<"v","u","e">>, <<"n","o","d","e">>, <<"e","x","p","r","e","s","s">>, <<"s","q","l">>, <<"m","o","n","g","o","d","b">>, <<"p","o","s","t","g","r","e","s","q","l">>, <<"m","y","s","q","l">>,
   <<"a","w","s">>, <<"a","z","u","r","e">>, <<"d","o","c","k","e","r">>, <<"k","u","b","e","r","n","e","t","e","s">>, <<"g","i","t">>, <<"a","g","i","l","e">>, <<"s","c","r","u","m">>,
   <<"a","p","i">>, <<"r","e","s","t">>, <<"g","r","a","p","h","q","l">>, <<"m","i","c","r","o","s","e","r","v","i","c","e","s">>, <<"d","e","v","o","p","s">>, <<"c","i">>, <<"c","d">>,
   <<"l","i","n","u","x">>, <<"u","n","i","x">>, <<"h","t","m","l">>, <<"c","s","s">>, <<"s","a","s","s">>, <<"l","e","s","s">>, <<"r","e","d","u","x">>, <<"m","o","b","x">>,
   <<"j","e","s","t">>, <<"t","e","s","t","i","n","g">>, <<"t","d","d">>, <<"b","d","d">>}

MinWordLength == 2

LongWordLength == 5

MinFrequency == 2

\* .replace(/[^\w\s]/g, ' ')
ReplacePunctuation(s) ==
  [i \in 1..Len(s) |-> IF IsWordChar(s[i]) \/ IsSpace(s[i]) THEN s[i] ELSE " "]

\* the filter of normalizeText: longer than two characters and no stop word
KeepWord(word) == Len(word) > MinWordLength /\ word \notin stopWords

\* the words normalizeText keeps, in order
normalizedWords(text) ==
  SelectSeq(SplitSpace(ReplacePunctuation(toLowerCase(text))), KeepWord)

normalizeText(text) == Join(normalizedWords(text), <<" ">>)

\* wordFreq.get(word)
Frequency(words, word) == Cardinality({i \in DOMAIN words : words[i] = word})

\* the test with the length the comment above it names, more than 4
IsKeywordLonger(words, word) ==
  \/ Frequency(words, word) >= MinFrequency
  \/ word \in techTerms
  \/ Len(word) > LongWordLength - 1

\* the test of extractKeywords on one entry of wordFreq
IsKeyword(words, word) ==
  \/ Frequency(words, word) >= MinFrequency
  \/ word \in techTerms
  \/ Len(word) > LongWordLength

\* the keys of wordFreq that pass the test, in insertion order, then new Set
KeywordsOf(words) ==
  Dedup(SelectSeq(Dedup(words), LAMBDA word : IsKeyword(words, word)))

extractKeywords(jobDescription) ==
  KeywordsOf(SplitSpace(normalizeText(jobDescription)))

\* new Set(normalizedResume.split(/\s+/))
resumeWordSet(normalizedResume) == Range(SplitSpace(normalizedResume))

\* the job keywords that are (present = TRUE) or are not words of the resume
KeywordsIn(jobKeywords, resumeWords, present) ==
  SelectSeq(jobKeywords, LAMBDA keyword : (keyword \in resumeWords) = present)

calculateKeywordOverlap(normalizedResume, jobKeywords) ==
  IF Len(jobKeywords) = 0 THEN Num(0)
  ELSE Times(Div(Len(KeywordsIn(jobKeywords, resumeWordSet(normalizedResume), TRUE)),
                 Len(jobKeywords)),
             Num(100))

TopImprovements == 10

generateKeywordImprovements(jobKeywords, normalizedResume) ==
  Take(KeywordsIn(jobKeywords, resumeWordSet(normalizedResume), FALSE),
       TopImprovements)

(***************************************************************************)
(* Skills                                                                  *)
(***************************************************************************)
\* the alternatives of the first skill pattern, in the order the engine tries
\* them (an optional s is tried present before absent)
SkillHeadings1 ==
  <<<<"r","e","q","u","i","r","e","d">>, <<"r","e","q","u","i","r","e","d"," ","s","k","i","l","l","s">>, <<"r","e","q","u","i","r","e","d"," ","s","k","i","l","l">>, <<"q","u","a","l","i","f","i","c","a","t","i","o","n","s">>,
    <<"q","u","a","l","i","f","i","c","a","t","i","o","n">>, <<"r","e","q","u","i","r","e","m","e","n","t","s">>, <<"r","e","q","u","i","r","e","m","e","n","t">>, <<"s","k","i","l","l","s">>, <<"s","k","i","l","l">>>>

\* the alternatives of the second skill pattern
SkillHeadings2 ==
  <<<<"t","e","c","h","n","i","c","a","l"," ","s","k","i","l","l","s">>, <<"t","e","c","h","n","i","c","a","l"," ","s","k","i","l","l">>, <<"c","o","r","e"," ","c","o","m","p","e","t","e","n","c","i","e","s">>,
    <<"c","o","r","e"," ","c","o","m","p","e","t","e","n","c","i","e">>, <<"k","e","y"," ","s","k","i","l","l","s">>, <<"k","e","y"," ","s","k","i","l","l">>>>

\* the section names of the lookahead that ends a skill section
SectionNames ==
  <<<<"e","x","p","e","r","i","e","n","c","e">>, <<"e","d","u","c","a","t","i","o","n">>, <<"r","e","s","p","o","n","s","i","b","i","l","i","t","i","e","s">>, <<"d","u","t","i","e","s">>>>

\* the regular-expression class [:\s\n]
IsHeadingSeparator(c) == c = ":" \/ IsSpace(c)

\* the first index >= i of s that holds no heading separator
SkipHeadingSeparators(s, i) ==
  Least({j \in i..(Len(s) + 1) : j = Len(s) + 1 \/ ~IsHeadingSeparator(s[j])})

\* the lookahead (?=\n\n|\n(?:experience|education|responsibilities|duties)|$)
SectionEndsAt(s, j) ==
  \/ j = Len(s) + 1
  \/ /\ j + 1 <= Len(s)
     /\ s[j] = "\n"
     /\ s[j + 1] = "\n"
  \/ /\ j <= Len(s)
     /\ s[j] = "\n"
     /\ \E k \in DOMAIN SectionNames : MatchAt(s, j + 1, SectionNames[k])

\* heading h matches s at index i and a heading separator follows it
HeadingAt(s, i, h) ==
  /\ MatchAt(s, i, h)
  /\ i + Len(h) <= Len(s)
  /\ IsHeadingSeparator(s[i + Len(h)])

NoMatch == [matched |-> FALSE, group |-> <<>>]

\* group 1 when the section text starts at index from: the lazy .*? runs up to
\* the first index where the lookahead holds
SectionFrom(s, from) ==
  [matched |-> TRUE,
   group |-> SubSeq(s, from,
                    Least({j \in from..(Len(s) + 1) : SectionEndsAt(s, j)}) - 1)]

\* the match that starts at index i: the first alternative that matches there,
\* its separators (greedy), then the section
SectionAt(s, i, headings) ==
  SectionFrom(s,
    SkipHeadingSeparators(s,
      i + Len(headings[Least({k \in DOMAIN headings : HeadingAt(s, i, headings[k])})])))

\* the leftmost of the indices starts where the pattern matches
LeftmostSection(s, headings, starts) ==
  IF starts = {} THEN NoMatch ELSE SectionAt(s, Least(starts), headings)

\* String.prototype.match of one skill pattern
MatchSkillPattern(s, headings) ==
  LeftmostSection(s, headings,
    {i \in DOMAIN s : \E k \in DOMAIN headings : HeadingAt(s, i, headings[k])})

MaxSkillLength == 50

TrimAll(pieces) == [i \in DOMAIN pieces |-> trim(pieces[i])]

LowerAll(pieces) == [i \in DOMAIN pieces |-> toLowerCase(pieces[i])]

\* .split(/[,\n<U+2022>\-\*\|]/).map(trim).filter(0 < length < 50)
SplitSection(group) ==
  SelectSeq(TrimAll(SplitSkills(group)),
            LAMBDA piece : Len(piece) > 0 /\ Len(piece) < MaxSkillLength)

\* the loop over skillPatterns, given the matches of the two patterns: the
\* first with a non-empty group is split, an empty group goes on to the next
FirstSection(m1, m2) ==
  IF m1.matched /\ m1.group # <<>> THEN SplitSection(m1.group)
  ELSE IF m2.matched /\ m2.group # <<>> THEN SplitSection(m2.group)
  ELSE <<>>

SectionSkills(jobDescription) ==
  FirstSection(MatchSkillPattern(jobDescription, SkillHeadings1),
               MatchSkillPattern(jobDescription, SkillHeadings2))

extractSkillsFromJobDescription(jobDescription) ==
  Dedup(LowerAll(SectionSkills(jobDescription) \o extractKeywords(jobDescription)))

\* the technologies of all projects, in order
ProjectTechnologies(projects) ==
  Flatten([i \in DOMAIN projects |-> projects[i].technologies])

\* skills and project technologies, lowercased and trimmed, without duplicates
getResumeSkills(resumeData) ==
  IF resumeData.kind # "data" THEN <<>>
  ELSE Dedup(TrimAll(LowerAll(resumeData.skills
                              \o ProjectTechnologies(resumeData.projects))))

\* a filter that counts exact matches only
SkillMatchesExactly(resumeSkills, jobSkill) == Contains(resumeSkills, jobSkill)

\* the filter of calculateSkillMatch: exact, else substring either way
SkillMatches(resumeSkills, jobSkill) ==
  \/ Contains(resumeSkills, jobSkill)
  \/ \E i \in DOMAIN resumeSkills :
       includes(resumeSkills[i], jobSkill) \/ includes(jobSkill, resumeSkills[i])

\* calculateSkillMatch without its guard for an empty list of job skills
calculateSkillMatchUnguarded(resumeSkills, jobSkills) ==
  Times(Div(Len(SelectSeq(jobSkills,
                          LAMBDA jobSkill : SkillMatches(resumeSkills, jobSkill))),
            Len(jobSkills)),
        Num(100))

calculateSkillMatch(resumeSkills, jobSkills) ==
  IF Len(jobSkills) = 0 THEN Num(0)
  ELSE Times(Div(Len(SelectSeq(jobSkills,
                               LAMBDA jobSkill : SkillMatches(resumeSkills, jobSkill))),
                 Len(jobSkills)),
             Num(100))

\* a filter that lists every skill without an exact match
SkillMissingExactly(resumeSkills, jobSkill) == ~Contains(resumeSkills, jobSkill)

\* the filter of findMissingSkills: no exact and no substring match
SkillMissing(resumeSkills, jobSkill) ==
  /\ ~Contains(resumeSkills, jobSkill)
  /\ ~\E i \in DOMAIN resumeSkills :
        includes(resumeSkills[i], jobSkill) \/ includes(jobSkill, resumeSkills[i])

findMissingSkills(resumeSkills, jobSkills) ==
  SelectSeq(jobSkills, LAMBDA jobSkill : SkillMissing(resumeSkills, jobSkill))

(***************************************************************************)
(* Experience alignment                                                    *)
(***************************************************************************)
\* the alternatives of the first job-title pattern
TitleHeadings ==
  <<<<"p","o","s","i","t","i","o","n">>, <<"r","o","l","e">>, <<"t","i","t","l","e">>, <<"l","o","o","k","i","n","g"," ","f","o","r">>, <<"s","e","e","k","i","n","g">>>>

\* the role nouns of the second job-title pattern
RoleNouns ==
  <<<<"e","n","g","i","n","e","e","r">>, <<"d","e","v","e","l","o","p","e","r">>, <<"m","a","n","a","g","e","r">>, <<"a","n","a","l","y","s","t">>, <<"s","p","e","c","i","a","l","i","s","t">>,
    <<"c","o","o","r","d","i","n","a","t","o","r">>, <<"d","i","r","e","c","t","o","r">>, <<"l","e","a","d">>, <<"s","e","n","i","o","r">>, <<"j","u","n","i","o","r">>>>

\* the regular-expression class [:\s]
IsTitleSeparator(c) == c = ":" \/ IsSpace(c)

\* the regular-expression class [a-z\s] under the i flag
IsTitleChar(c) == IsLetter(c) \/ IsSpace(c)

\* (?:\.|,|\n|$) holds at index j
TitleEndsAt(s, j) ==
  \/ j = Len(s) + 1
  \/ /\ j <= Len(s)
     /\ s[j] \in {".", ",", "\n"}

\* the lengths n >= 1 of a group ([a-z\s]+?) that starts at index c and is
\* followed by the end of the first pattern
TitleLengths(s, c) ==
  {n \in 1..(Len(s) - c + 1) :
     /\ \A k \in c..(c + n - 1) : IsTitleChar(s[k])
     /\ TitleEndsAt(s, c + n)}

\* the lengths m >= 1 of the separators [:\s]+ from index e on after which
\* the group can match
SeparatorLengths(s, e) ==
  {m \in 1..(Len(s) - e + 1) :
     /\ \A k \in e..(e + m - 1) : IsTitleSeparator(s[k])
     /\ TitleLengths(s, e + m) # {}}

\* the first job-title pattern matches s at index i with heading h
TitleMatchesAt(s, i, h) == MatchAt(s, i, h) /\ SeparatorLengths(s, i + Len(h)) # {}

\* the group that starts at index c: lazy, so the shortest
TitleGroupFrom(s, c) ==
  [matched |-> TRUE, group |-> SubSeq(s, c, c + Least(TitleLengths(s, c)) - 1)]

\* the match with the heading ending before index e: the greedy separators
\* give characters back until the group matches, so the longest that works
TitleGroupAfter(s, e, lengths) ==
  TitleGroupFrom(s, e + (CHOOSE m \in lengths : \A n \in lengths : m >= n))

\* the leftmost match among hits, the <<index, heading>> pairs that match
LeftmostTitle(s, hits) ==
  IF hits = {} THEN NoMatch
  ELSE TitleGroupAfter(s,
         Least({p[1] : p \in hits})
           + Len(TitleHeadings[Least({p[2] : p \in {q \in hits :
                                        q[1] = Least({r[1] : r \in hits})}})]),
         SeparatorLengths(s,
           Least({p[1] : p \in hits})
             + Len(TitleHeadings[Least({p[2] : p \in {q \in hits :
                                          q[1] = Least({r[1] : r \in hits})}})])))

\* String.prototype.match of the first job-title pattern
MatchTitlePattern1(s) ==
  LeftmostTitle(s, {p \in (DOMAIN s) \X (DOMAIN TitleHeadings) :
                      TitleMatchesAt(s, p[1], TitleHeadings[p[2]])})

\* \s+ and a role noun match s at index j
RoleNounAfterSpace(s, j) ==
  \E m \in 1..(Len(s) - j + 1) :
    /\ \A k \in j..(j + m - 1) : IsSpace(s[k])
    /\ \E r \in DOMAIN RoleNouns : MatchAt(s, j + m, RoleNouns[r])

\* the lengths n >= 1 of a group ^([a-z\s]+?) that a role noun follows
RoleTitleLengths(s) ==
  {n \in 1..Len(s) :
     /\ \A k \in 1..n : IsTitleChar(s[k])
     /\ RoleNounAfterSpace(s, n + 1)}

ShortestPrefix(s, lengths) ==
  IF lengths = {} THEN NoMatch
  ELSE [matched |-> TRUE, group |-> SubSeq(s, 1, Least(lengths))]

\* String.prototype.match of the second job-title pattern, anchored at the start
MatchTitlePattern2(s) == ShortestPrefix(s, RoleTitleLengths(s))

\* the loop over jobTitlePatterns, given the matches of the two patterns:
\* match[1].trim().toLowerCase() of the first that matches, else ''
FirstTitle(m1, m2) ==
  IF m1.matched THEN toLowerCase(trim(m1.group))
  ELSE IF m2.matched THEN toLowerCase(trim(m2.group))
  ELSE <<>>

inferJobTitle(jobDescription) ==
  FirstTitle(MatchTitlePattern1(jobDescription), MatchTitlePattern2(jobDescription))

MinTitleWordLength == 3

\* the weights of titleMatch and experienceKeywordMatch, in tenths
TitleWeight == 4

KeywordWeight == 6

\* jobTitle.split(/\s+/).filter(w => w.length > 3)
jobTitleWords(jobTitle) ==
  SelectSeq(SplitSpace(jobTitle), LAMBDA w : Len(w) > MinTitleWordLength)

\* (matchedWords.length / jobTitleWords.length) * 100 for one lowercased title
TitleFraction(expTitle, words) ==
  Times(Div(Len(SelectSeq(words, LAMBDA word : includes(expTitle, word))),
            Len(words)),
        Num(100))

\* the forEach over data.experience: titleMatch after the entries up to n
RECURSIVE titleMatchUpTo(_, _, _)
titleMatchUpTo(experience, words, n) ==
  IF n = 0 THEN Num(0)
  ELSE MathMax(titleMatchUpTo(experience, words, n - 1),
               TitleFraction(toLowerCase(experience[n].title), words))

\* titleMatch of calculateExperienceAlignment
titleMatchScore(experience, jobTitle) ==
  IF jobTitle = <<>> THEN Num(0)
  ELSE titleMatchUpTo(experience, jobTitleWords(jobTitle), Len(experience))

\* the texts of all experience entries, joined and lowercased
experienceTexts(experience) ==
  toLowerCase(Join(Flatten([i \in DOMAIN experience |->
      <<experience[i].title, experience[i].company>> \o experience[i].bullets]),
    <<" ">>))

KeywordFraction(expTexts, jobKeywords) ==
  Times(Div(Len(SelectSeq(jobKeywords, LAMBDA keyword : includes(expTexts, keyword))),
            Len(jobKeywords)),
        Num(100))

\* experienceKeywordMatch of calculateExperienceAlignment
experienceKeywordMatch(experience, jobKeywords) ==
  IF Len(jobKeywords) = 0 THEN Num(0)
  ELSE KeywordFraction(experienceTexts(experience), jobKeywords)

\* an alignment that rates a resume without experience as neutral
calculateExperienceAlignmentNeutral(resumeData, jobDescription) ==
  IF resumeData.kind # "data" THEN Num(0)
  ELSE IF Len(resumeData.experience) = 0 THEN Num(50)
  ELSE Plus(Times(titleMatchScore(resumeData.experience, inferJobTitle(jobDescription)),
                  Rat(TitleWeight, 10)),
            Times(experienceKeywordMatch(resumeData.experience,
                                         extractKeywords(jobDescription)),
                  Rat(KeywordWeight, 10)))

\* an alignment with the two weights exchanged
calculateExperienceAlignmentSwapped(resumeData, jobDescription) ==
  IF resumeData.kind # "data" THEN Num(0)
  ELSE IF Len(resumeData.experience) = 0 THEN Num(0)
  ELSE Plus(Times(titleMatchScore(resumeData.experience, inferJobTitle(jobDescription)),
                  Rat(KeywordWeight, 10)),
            Times(experienceKeywordMatch(resumeData.experience,
                                         extractKeywords(jobDescription)),
                  Rat(TitleWeight, 10)))

calculateExperienceAlignment(resumeData, jobDescription) ==
  IF resumeData.kind # "data" THEN Num(0)
  ELSE IF Len(resumeData.experience) = 0 THEN Num(0)
  ELSE Plus(Times(titleMatchScore(resumeData.experience, inferJobTitle(jobDescription)),
                  Rat(TitleWeight, 10)),
            Times(experienceKeywordMatch(resumeData.experience,
                                         extractKeywords(jobDescription)),
                  Rat(KeywordWeight, 10)))

(***************************************************************************)
(* The rule-based scorer                                                   *)
(***************************************************************************)
\* the text parts of one experience, project and education entry
ExperienceParts(exp) == <<exp.title \o <<" ","a","t"," ">> \o exp.company>> \o exp.bullets

ProjectParts(proj) ==
  <<proj.name, proj.description, Join(proj.technologies, <<","," ">>)>> \o proj.bullets

EducationParts(edu) ==
  <<edu.degree \o <<" ","f","r","o","m"," ">> \o edu.institution>> \o edu.highlights

convertResumeDataToText(resumeData) ==
  IF resumeData.kind # "data" THEN <<>>
  ELSE Join((IF resumeData.summary # <<>> THEN <<resumeData.summary>> ELSE <<>>)
            \o <<Join(resumeData.skills, <<","," ">>)>>
            \o Flatten([i \in DOMAIN resumeData.experience |->
                          ExperienceParts(resumeData.experience[i])])
            \o Flatten([i \in DOMAIN resumeData.projects |->
                          ProjectParts(resumeData.projects[i])])
            \o Flatten([i \in DOMAIN resumeData.education |->
                          EducationParts(resumeData.education[i])]),
            <<" ">>)

\* the weights of the overall score, in tenths
OverlapWeight == 4

SkillWeight == 4

AlignmentWeight == 2

\* a combination with the weights of overlap and alignment exchanged
weightedScoreSwapped(keywordOverlap, skillMatch, experienceAlignment) ==
  Plus(Plus(Times(keywordOverlap, Rat(AlignmentWeight, 10)),
            Times(skillMatch, Rat(SkillWeight, 10))),
       Times(experienceAlignment, Rat(OverlapWeight, 10)))

\* the weighted combination, before Math.round
weightedScore(keywordOverlap, skillMatch, experienceAlignment) ==
  Plus(Plus(Times(keywordOverlap, Rat(OverlapWeight, 10)),
            Times(skillMatch, Rat(SkillWeight, 10))),
       Times(experienceAlignment, Rat(AlignmentWeight, 10)))

\* the return statement of calculateATSScoreRuleBased, with the locals it was
\* computed from (the sub-scores unrounded)
ruleBasedReturn(keywordOverlap, skillMatch, experienceAlignment, missingSkills, keywordImprovements, jobKeywords, jobSkills, resumeSkills) ==
  [threw |-> FALSE,
   locals |-> [keywordOverlap |-> keywordOverlap,
               skillMatch |-> skillMatch,
               experienceAlignment |-> experienceAlignment,
               jobKeywords |-> Len(jobKeywords),
               jobSkills |-> Len(jobSkills),
               keywords |-> jobKeywords,
               requiredSkills |-> jobSkills,
               candidateSkills |-> resumeSkills],
   result |-> [score |-> MathMin(Num(100), MathMax(Num(0),
                 MathRound(weightedScore(keywordOverlap, skillMatch,
                                         experienceAlignment)))),
               skillMatch |-> MathRound(skillMatch),
               missingSkills |-> missingSkills,
               keywordImprovements |-> keywordImprovements,
               experienceAlignment |-> MathRound(experienceAlignment)]]

\* the body of calculateATSScoreRuleBased from its first locals on
ruleBasedFrom(resumeData, jobDescription, normalizedResume, jobKeywords, jobSkills, resumeSkills) ==
  ruleBasedReturn(calculateKeywordOverlap(normalizedResume, jobKeywords),
                  calculateSkillMatch(resumeSkills, jobSkills),
                  calculateExperienceAlignment(resumeData, jobDescription),
                  findMissingSkills(resumeSkills, jobSkills),
                  generateKeywordImprovements(jobKeywords, normalizedResume),
                  jobKeywords, jobSkills, resumeSkills)

\* a conversion that also throws for an entry whose bullets are empty
convertThrowsOnNoBullets(resumeData) ==
  /\ resumeData.kind = "data"
  /\ \E i \in DOMAIN resumeData.experience :
       \/ ~resumeData.experience[i].hasBullets
       \/ resumeData.experience[i].bullets = <<>>

\* textParts.push(...exp.bullets) throws a TypeError for an experience entry
\* without bullets
convertThrows(resumeData) ==
  /\ resumeData.kind = "data"
  /\ \E i \in DOMAIN resumeData.experience : ~resumeData.experience[i].hasBullets

\* what a run that throws leaves behind
RuleBasedThrew ==
  [threw |-> TRUE,
   locals |-> [keywordOverlap |-> Num(0), skillMatch |-> Num(0),
               experienceAlignment |-> Num(0), jobKeywords |-> 0, jobSkills |-> 0,
               keywords |-> <<>>, requiredSkills |-> <<>>, candidateSkills |-> <<>>],
   result |-> [score |-> Num(0), skillMatch |-> Num(0), missingSkills |-> <<>>,
               keywordImprovements |-> <<>>, experienceAlignment |-> Num(0)]]

\* one run of calculateATSScoreRuleBased: [threw, locals, result]
ruleBasedRun(resumeData, jobDescription) ==
  IF convertThrows(resumeData) THEN RuleBasedThrew
  ELSE ruleBasedFrom(resumeData, jobDescription,
                     normalizeText(convertResumeDataToText(resumeData)),
                     extractKeywords(jobDescription),
                     extractSkillsFromJobDescription(jobDescription),
                     getResumeSkills(resumeData))

calculateATSScoreRuleBased(resumeData, jobDescription) ==
  ruleBasedRun(resumeData, jobDescription).result
(***************************************************************************)
(* The AI scorer: what calculateATSScoreWithAI does with the reply         *)
(***************************************************************************)
\* A reply of the collaborator is [form, whole, block].  form says what
\* response.choices[0]?.message?.content is:
\*   "empty"      nothing, or only whitespace
\*   "json"       a text JSON.parse accepts
\*   "fenced"     a text JSON.parse rejects that holds a fenced block whose
\*                braces JSON.parse accepts
\*   "fencedText" the same, but JSON.parse rejects the braces as well
\*   "text"       a text JSON.parse rejects without a fenced block
\* whole is <<what JSON.parse yields for the text>>, <<>> if it rejects it;
\* block is <<what JSON.parse yields for the braces of the fenced block in
\* the text>>, <<>> without such a block or if it rejects them.  A text
\* JSON.parse accepts can hold a fenced block inside one of its strings.
\* A value is [isNull, score, skillMatch, experienceAlignment, missingSkills,
\* keywordImprovements, recommendations].
\* A numeric field is [t, n]: t is "missing", "number", "numeric string",
\* "text", "null" or "true".  A list field is [isArray, items], an item
\* [isString, text].

\* Number(v)
ToNumber(v) ==
  CASE v.t \in {"number", "numeric string"} -> v.n
    [] v.t = "null" -> Num(0)
    [] v.t = "true" -> Num(1)
    [] OTHER -> NaN

\* Math.min(100, Math.max(0, Number(v) || 0))
ClampField(v) == MathMin(Num(100), MathMax(Num(0), OrZero(ToNumber(v))))

\* typeof s === 'string' && s.trim().length > 0
IsNonEmptyString(item) == item.isString /\ Len(trim(item.text)) > 0

\* typeof k === 'string'
IsString(item) == item.isString

Texts(items) == [i \in DOMAIN items |-> items[i].text]

\* missingSkills of calculateATSScoreWithAI, before the slice
aiMissingSkills(value) ==
  IF value.missingSkills.isArray
  THEN Texts(SelectSeq(value.missingSkills.items, IsNonEmptyString))
  ELSE <<>>

TopRecommendations == 5

\* the strings of aiAnalysis.keywordImprovements
ownImprovements(value) ==
  IF value.keywordImprovements.isArray
  THEN Texts(SelectSeq(value.keywordImprovements.items, IsString))
  ELSE <<>>

\* recommendations taken without the limit of five
topRecsUnlimited(value, keywordImprovements) ==
  IF value.recommendations.isArray
  THEN Texts(SelectSeq(value.recommendations.items,
                       LAMBDA item : /\ item.isString
                                     /\ ~Contains(keywordImprovements, item.text)))
  ELSE <<>>

\* topRecs: of the first five recommendations, the strings not yet in
\* keywordImprovements
topRecs(value, keywordImprovements) ==
  IF value.recommendations.isArray
  THEN Texts(SelectSeq(Take(value.recommendations.items, TopRecommendations),
                       LAMBDA item : /\ item.isString
                                     /\ ~Contains(keywordImprovements, item.text)))
  ELSE <<>>

\* keywordImprovements of calculateATSScoreWithAI, before the slice
aiKeywordImprovements(value) ==
  ownImprovements(value) \o topRecs(value, ownImprovements(value))

MaxMissingSkills == 15

MaxKeywordImprovements == 15

\* the return statement of calculateATSScoreWithAI
aiScoreResult(value) ==
  [score |-> MathRound(ClampField(value.score)),
   skillMatch |-> MathRound(ClampField(value.skillMatch)),
   missingSkills |-> Take(aiMissingSkills(value), MaxMissingSkills),
   keywordImprovements |-> Take(aiKeywordImprovements(value), MaxKeywordImprovements),
   experienceAlignment |-> MathRound(ClampField(value.experienceAlignment))]

NoScore ==
  [score |-> Num(0), skillMatch |-> Num(0), missingSkills |-> <<>>,
   keywordImprovements |-> <<>>, experienceAlignment |-> Num(0)]

\* the AI scorer's end for aiAnalysis = value: reading a field of null throws
\* a TypeError
scoreFromValue(value) ==
  IF value.isNull
  THEN [threw |-> TRUE, error |-> "type", value |-> NoScore]
  ELSE [threw |-> FALSE, error |-> "", value |-> aiScoreResult(value)]

\* aiAnalysis: <<the value the two parsing stages end with>>, <<>> if both fail
parsedValue(reply) ==
  IF reply.form = "empty" THEN <<>>
  ELSE IF reply.whole # <<>> THEN reply.whole
  ELSE reply.block

\* a parser that looks for the fenced block before it tries the whole text
scoreFromReplyFenceFirst(reply) ==
  IF reply.form = "empty"
  THEN [threw |-> TRUE, error |-> "empty response", value |-> NoScore]
  ELSE IF reply.block # <<>> THEN scoreFromValue(reply.block[1])
  ELSE IF reply.whole # <<>> THEN scoreFromValue(reply.whole[1])
  ELSE [threw |-> TRUE, error |-> "parse", value |-> NoScore]

\* calculateATSScoreWithAI once the collaborator has replied: the score it
\* returns, or the error it throws
scoreFromReply(reply) ==
  IF reply.form = "empty"
  THEN [threw |-> TRUE, error |-> "empty response", value |-> NoScore]
  ELSE IF reply.whole # <<>> THEN scoreFromValue(reply.whole[1])
  ELSE IF reply.form = "text"
  THEN [threw |-> TRUE, error |-> "parse", value |-> NoScore]
  ELSE IF reply.block = <<>>
  THEN [threw |-> TRUE, error |-> "parse", value |-> NoScore]
  ELSE scoreFromValue(reply.block[1])

(***************************************************************************)
(* The facade                                                              *)
(***************************************************************************)
\* the result of the early return of calculateATSScore
ZeroScore ==
  [score |-> Num(0), skillMatch |-> Num(0), missingSkills |-> <<>>,
   keywordImprovements |-> <<>>, experienceAlignment |-> Num(0)]

\* the emptiness test without its Object.keys half
IsAbsentResume(resumeData) == resumeData.kind = "absent"

\* !resumeData || Object.keys(resumeData).length === 0
\* (Object.keys of a number or a boolean is empty as well)
IsEmptyResume(resumeData) == resumeData.kind \in {"absent", "empty", "number"}

\* a catch that rethrows instead of falling back
fallbackRethrows(run) ==
  [outcome |-> "threw", result |-> <<>>, ruleCalls |-> 0, locals |-> <<>>]

\* a catch that runs the rule-based scorer and returns the zero result
fallbackZero(run) ==
  [outcome |-> "returned", result |-> <<ZeroScore>>, ruleCalls |-> 1,
   locals |-> <<run.locals>>]

\* the catch of calculateATSScore: the call returns what the rule-based run
\* returned, and throws what it threw
fallback(run) ==
  IF run.threw
  THEN [outcome |-> "threw", result |-> <<>>, ruleCalls |-> 1, locals |-> <<>>]
  ELSE [outcome |-> "returned", result |-> <<run.result>>, ruleCalls |-> 1,
        locals |-> <<run.locals>>]

\* a facade that runs the rule-based scorer whether or not the AI scorer failed
afterAIAlwaysRules(resumeData, jobDescription, ai) ==
  [outcome |-> "returned",
   result |-> <<IF ai.threw THEN ruleBasedRun(resumeData, jobDescription).result
                ELSE ai.value>>,
   ruleCalls |-> 1,
   locals |-> <<ruleBasedRun(resumeData, jobDescription).locals>>]

\* the try/catch of calculateATSScore, given how the AI scorer ended (ai is
\* [threw, error, value]): what the call returns and how often it ran the
\* rule-based scorer (locals: the sub-scores of that run)
afterAI(resumeData, jobDescription, ai) ==
  IF ~ai.threw
  THEN [outcome |-> "returned", result |-> <<ai.value>>, ruleCalls |-> 0,
        locals |-> <<>>]
  ELSE fallback(ruleBasedRun(resumeData, jobDescription))

(***************************************************************************)
(* Inputs                                                                  *)
(***************************************************************************)
\* how many entries a generated list holds (the skills a job description
\* lists, the entries of an array of the reply)
MaxListed == 17

\* the lengths of the generated lists: none, one, around the five
\* recommendations that are read, and around the caps up to MaxListed
ListLengths == {0, 1, 5, 6} \cup 14..MaxListed

Alphabet == <<"a","b","c","d","e","f","g","h","i","j","k","l","m","n","o","p","q","r","s","t","u","v","w","x","y","z">>

NoResume(kind) ==
  [kind |-> kind, summary |-> <<>>, skills |-> <<>>, experience |-> <<>>,
   projects |-> <<>>, education |-> <<>>]

\* the resumes a call is made with: absent, {}, a number and a string (what
\* an unvalidated request body can hold), and ResumeData
Resumes ==
  { NoResume("absent"),
    NoResume("empty"),
    NoResume("number"),
    NoResume("text"),
    \* an experience entry without bullets
    [kind |-> "data", summary |-> <<>>, skills |-> <<<<"P","y","t","h","o","n">>>>,
     experience |-> <<[title |-> <<"D","e","v","e","l","o","p","e","r">>, company |-> <<"A","c","m","e">>,
                       bullets |-> <<>>, hasBullets |-> FALSE]>>,
     projects |-> <<>>, education |-> <<>>],
    \* every section empty
    NoResume("data"),
    [kind |-> "data", summary |-> <<>>, skills |-> <<<<"P","y","t","h","o","n">>, <<"S","Q","L">>>>,
     experience |-> <<>>, projects |-> <<>>, education |-> <<>>],
    [kind |-> "data",
     summary |-> <<"D","a","t","a"," ","e","n","g","i","n","e","e","r"," ","b","u","i","l","d","i","n","g"," ","p","i","p","e","l","i","n","e","s">>,
     skills |-> <<<<"R","e","a","c","t">>, <<"p","y","t","h","o","n">>>>,
     experience |-> <<[title |-> <<"D","a","t","a"," ","E","n","g","i","n","e","e","r">>, company |-> <<"A","c","m","e">>,
                       bullets |-> <<<<"B","u","i","l","t"," ","P","y","t","h","o","n"," ","d","a","t","a"," ","p","i","p","e","l","i","n","e","s">>>>,
                       hasBullets |-> TRUE],
                      [title |-> <<"J","u","n","i","o","r"," ","D","e","v","e","l","o","p","e","r">>, company |-> <<"I","n","i","t","e","c","h">>,
                       bullets |-> <<>>, hasBullets |-> TRUE]>>,
     projects |-> <<[name |-> <<"S","h","o","p">>, description |-> <<"W","e","b"," ","s","t","o","r","e">>,
                     technologies |-> <<<<"D","o","c","k","e","r"," ">>>>, bullets |-> <<<<"T","e","s","t","i","n","g">>>>]>>,
     education |-> <<[degree |-> <<"B","S","c">>, institution |-> <<"M","I","T">>,
                      highlights |-> <<<<"H","o","n","o","u","r","s">>>>]>>],
    [kind |-> "data", summary |-> <<"Q","A">>,
     skills |-> <<<<>>, <<" "," ">>>>,
     experience |-> <<[title |-> <<"Q","A"," ","L","e","a","d">>, company |-> <<>>, bullets |-> <<>>,
                       hasBullets |-> TRUE]>>,
     projects |-> <<>>, education |-> <<>>] }

\* the opening of a job description: none, or a line a job-title pattern matches
JobTitles ==
  { <<>>,
    <<"R","o","l","e",":"," ","Q","A",".">>,
    <<"S","e","e","k","i","n","g"," ","D","a","t","a"," ","E","n","g","i","n","e","e","r","\n">>,
    <<"S","e","n","i","o","r"," ","P","y","t","h","o","n"," ","D","e","v","e","l","o","p","e","r"," ">> }

\* its skills section
JobSections ==
  { <<>>,
    <<"R","e","q","u","i","r","e","d"," ","S","k","i","l","l","s",":"," ","P","y","t","h","o","n",","," ","S","Q","L",","," ","D","o","c","k","e","r",","," ","K","u","b","e","r","n","e","t","e","s">>,
    <<"S","k","i","l","l","s",":"," ","R","e","a","c","t",".","j","s",","," ","T","y","p","e","S","c","r","i","p","t">>,
    <<"C","o","r","e"," ","c","o","m","p","e","t","e","n","c","i","e","s",":"," ","G","o"," ","|"," ","R","u","s","t"," ","-"," ","C","+","+"," ","*"," ">> }

\* its ending
JobEndings ==
  { <<>>,
    <<"\n","\n","t","h","e"," ","t","e","a","m"," ","a","n","d"," ","t","h","e"," ","t","e","a","m">>,
    <<"\n","E","x","p","e","r","i","e","n","c","e"," ","w","i","t","h"," ","R","e","a","c","t",".","j","s"," ","t","e","s","t","i","n","g">> }

\* names of skills that are technical terms
SkillNames ==
  <<<<"v","u","e">>, <<"s","q","l">>, <<"a","w","s">>, <<"g","i","t">>, <<"a","p","i">>, <<"c","s","s">>, <<"t","d","d">>, <<"b","d","d">>, <<"j","a","v","a">>,
    <<"n","o","d","e">>, <<"r","e","s","t">>, <<"u","n","i","x">>, <<"h","t","m","l">>, <<"s","a","s","s">>, <<"l","e","s","s">>, <<"j","e","s","t">>, <<"m","o","b","x">>,
    <<"r","e","a","c","t">>, <<"r","e","d","u","x">>, <<"a","z","u","r","e">>, <<"a","g","i","l","e">>, <<"s","c","r","u","m">>, <<"l","i","n","u","x">>, <<"d","o","c","k","e","r">>,
    <<"p","y","t","h","o","n">>, <<"d","e","v","o","p","s">>>>

\* a skills section that lists the first n skill names
SkillList(n) == <<"S","k","i","l","l","s",":"," ">> \o Join([i \in 1..n |-> SkillNames[i]], <<",">>)

\* an opening, a skills section and an ending, one of them at least left
\* out, and the skill lists
JobDescriptions ==
  {p[1] \o p[2] \o p[3] :
     p \in {q \in JobTitles \X JobSections \X JobEndings :
              q[1] = <<>> \/ q[2] = <<>> \/ q[3] = <<>>}}
  \cup {SkillList(n) : n \in ListLengths}
  \cup {<<"B","u","i","l","d"," ","t","o","o","l","s"," ","i","n"," ","n","o","d","e","_","j","s",";"," ","t","o","o","l","s"," ","f","o","r"," ","e","-","m","a","i","l">>}

\* the numeric fields of a reply
Number(n) == [t |-> "number", n |-> n]

NumberFields ==
  { Number(Num(85)), Number(Num(0)), Number(Num(100)), Number(Rat(141, 2)),
    Number(Rat(498, 5)), Number(Num(-5)), Number(Num(150)),
    [t |-> "numeric string", n |-> Num(85)],
    [t |-> "text", n |-> Num(0)],
    [t |-> "missing", n |-> Num(0)],
    [t |-> "null", n |-> Num(0)],
    [t |-> "true", n |-> Num(0)] }

\* fewer of them, for the fields the same expression reads as it reads score
FewNumberFields ==
  { Number(Rat(141, 2)), Number(Num(-5)), Number(Num(150)),
    [t |-> "missing", n |-> Num(0)] }

StringItem(text) == [isString |-> TRUE, text |-> text]

ArrayOf(items) == [isArray |-> TRUE, items |-> items]

\* n different non-empty strings
Listed(n) == ArrayOf([i \in 1..n |-> StringItem(<<"s","k","i","l","l"," ">> \o <<Alphabet[i]>>)])

\* the list fields of a reply
ListFields ==
  {Listed(n) : n \in ListLengths}
  \cup { [isArray |-> FALSE, items |-> <<>>],
         ArrayOf(<<StringItem(<<>>), StringItem(<<"d","o","c","k","e","r">>)>>),
         ArrayOf(<<StringItem(<<" "," ">>), StringItem(<<"a","w","s">>)>>),
         ArrayOf(<<StringItem(<<"D","o","c","k","e","r">>), StringItem(<<"d","o","c","k","e","r">>)>>),
         ArrayOf(<<StringItem(<<"a","w","s">>), StringItem(<<"a","w","s">>)>>),
         ArrayOf(<<[isString |-> FALSE, text |-> <<>>], StringItem(<<"g","i","t">>)>>) }

BaseValue ==
  [isNull |-> FALSE,
   score |-> Number(Num(85)),
   skillMatch |-> Number(Num(70)),
   experienceAlignment |-> Number(Num(60)),
   missingSkills |-> ArrayOf(<<StringItem(<<"d","o","c","k","e","r">>)>>),
   keywordImprovements |-> ArrayOf(<<StringItem(<<"k","u","b","e","r","n","e","t","e","s">>)>>),
   recommendations |-> ArrayOf(<<StringItem(<<"A","d","d"," ","m","e","t","r","i","c","s">>)>>)]

\* what JSON.parse can yield: the base value with one field changed, and null
ReplyValues ==
  {[BaseValue EXCEPT !.score = v] : v \in NumberFields}
  \cup {[BaseValue EXCEPT !.skillMatch = v] : v \in FewNumberFields}
  \cup {[BaseValue EXCEPT !.experienceAlignment = v] : v \in FewNumberFields}
  \cup {[BaseValue EXCEPT !.missingSkills = a] : a \in ListFields}
  \cup {[BaseValue EXCEPT !.keywordImprovements = a] : a \in ListFields}
  \cup {[BaseValue EXCEPT !.recommendations = a] : a \in ListFields}
  \cup {[BaseValue EXCEPT !.isNull = TRUE]}

\* the object in a fenced block
BlockValue == [BaseValue EXCEPT !.score = Number(Num(10))]

Replies ==
  {[form |-> "json", whole |-> <<v>>, block |-> <<>>] : v \in ReplyValues}
  \cup {[form |-> "json", whole |-> <<BaseValue>>, block |-> <<BlockValue>>]}
  \cup {[form |-> "fenced", whole |-> <<>>, block |-> <<BlockValue>>]}
  \cup {[form |-> f, whole |-> <<>>, block |-> <<>>] : f \in {"empty", "text", "fencedText"}}

(***************************************************************************)
(* The plans, the users and their orders                                   *)
(***************************************************************************)
\* the limits of the plans initializePlans writes
Plans ==
  [FREE |-> [maxResumes |-> 1, maxATSChecks |-> 2],
   PRO |-> [maxResumes |-> 5, maxATSChecks |-> 10]]

Users == {"u1"}

\* the orders createOrder has saved: their user and their plan
Orders == [o1 |-> [user |-> "u1", plan |-> "PRO"]]

\* the requests the server works on at the same time, as numbered slots
Handlers == {1, 2}

\* requests started in all
MaxRequests == 3

\* a handler without a request
Idle ==
  [kind |-> "idle", pc |-> "idle", phase |-> "none", user |-> "none",
   plan |-> "none", order |-> "none", doc |-> <<>>, saved |-> FALSE, status |-> 0]

(***************************************************************************)
(* One call of calculateATSScore at a time; the requests on subscriptions  *)
(***************************************************************************)
VARIABLES
  apiKey,          \* process.env.OPENAI_API_KEY is set
  pc,              \* "idle", "awaitAI" (at the await of the completion), "done"
  resumeData,      \* the arguments of the call
  jobDescription,
  aiStatus,        \* the completion request: "none", "pending", "stalled"
                   \* (it never settles), "settled"
  aiError,         \* the error the AI scorer threw, "" if none
  aiCalls,         \* calls of calculateATSScoreWithAI in this call
  ruleCalls,       \* calls of calculateATSScoreRuleBased in this call
  outcome,         \* "none", "returned", "threw"
  result,          \* <<the ScoreResult returned>>, or <<>>
  locals,          \* <<the locals of the rule-based run>>, or <<>>
  aiReply,         \* <<the reply the completion request resolved with>>, or <<>>
  usageTracking,   \* trackUsageFromResponse: "none", "recorded", "failed"
  served,          \* the service has answered a call before this one
  subscriptions,   \* the collection user_subscriptions, in insertion order
  audit,           \* for each subscription: what created it, and the scoring
                   \* operations carried out after a limit check read it
  orders,          \* the status of each order
  handlers,        \* the requests in progress
  requests         \* requests started so far

scoreVars ==
  <<apiKey, pc, resumeData, jobDescription, aiStatus, aiError, aiCalls,
    ruleCalls, outcome, result, locals, aiReply, usageTracking, served>>

accountVars == <<subscriptions, audit, orders, handlers, requests>>

vars == <<scoreVars, accountVars>>

\* no call of calculateATSScore is in progress; no subscription yet, every
\* order pending, no request in progress
Init ==
  /\ apiKey \in BOOLEAN
  /\ pc = "idle"
  /\ resumeData = NoResume("absent")
  /\ jobDescription = <<>>
  /\ aiStatus = "none"
  /\ aiError = ""
  /\ aiCalls = 0
  /\ ruleCalls = 0
  /\ outcome = "none"
  /\ result = <<>>
  /\ locals = <<>>
  /\ aiReply = <<>>
  /\ usageTracking = "none"
  /\ served = FALSE
  /\ subscriptions = <<>>
  /\ audit = <<>>
  /\ orders = [o \in DOMAIN Orders |-> "pending"]
  /\ handlers = [h \in Handlers |-> Idle]
  /\ requests = 0

\* an ending that answers from what an earlier call left behind
FinishWarm(ai, end) ==
  /\ pc' = "done"
  /\ aiError' = ai.error
  /\ ruleCalls' = end.ruleCalls
  /\ outcome' = end.outcome
  /\ result' = IF served /\ end.ruleCalls = 1 /\ end.outcome = "returned"
               THEN <<ZeroScore>> ELSE end.result
  /\ locals' = end.locals

\* the call ends with what afterAI decided
Finish(ai, end) ==
  /\ pc' = "done"
  /\ aiError' = ai.error
  /\ ruleCalls' = end.ruleCalls
  /\ outcome' = end.outcome
  /\ result' = end.result
  /\ locals' = end.locals

\* calculateATSScore with no resume data: the early return
CallEmpty(r, j) ==
  /\ pc = "idle"
  /\ IsEmptyResume(r)
  /\ resumeData' = r
  /\ jobDescription' = j
  /\ pc' = "done"
  /\ outcome' = "returned"
  /\ result' = <<ZeroScore>>
  /\ UNCHANGED <<apiKey, aiStatus, aiError, aiCalls, ruleCalls, locals, aiReply,
                 usageTracking, served>>
  /\ UNCHANGED accountVars

\* calculateATSScore without an API key: the AI scorer throws before any
\* request and the catch runs the rule-based scorer
CallWithoutKey(r, j) ==
  /\ pc = "idle"
  /\ ~IsEmptyResume(r)
  /\ ~apiKey
  /\ resumeData' = r
  /\ jobDescription' = j
  /\ aiCalls' = 1
  /\ Finish([threw |-> TRUE, error |-> "configuration", value |-> NoScore],
            afterAI(r, j, [threw |-> TRUE, error |-> "configuration",
                           value |-> NoScore]))
  /\ UNCHANGED <<apiKey, aiStatus, aiReply, usageTracking, served>>
  /\ UNCHANGED accountVars

\* calculateATSScore up to the await of openai.chat.completions.create
CallAI(r, j) ==
  /\ pc = "idle"
  /\ ~IsEmptyResume(r)
  /\ apiKey
  /\ resumeData' = r
  /\ jobDescription' = j
  /\ aiCalls' = 1
  /\ pc' = "awaitAI"
  /\ aiStatus' = "pending"
  /\ UNCHANGED <<apiKey, aiError, ruleCalls, outcome, result, locals, aiReply,
                 usageTracking, served>>
  /\ UNCHANGED accountVars

\* how the AI scorer goes on after trackUsageFromResponse, if a failure to
\* record the usage were an error of the scorer
afterTrackingFatal(tracked, ai) ==
  IF tracked = "failed"
  THEN [threw |-> TRUE, error |-> "usage", value |-> NoScore]
  ELSE ai

\* how the AI scorer goes on after trackUsageFromResponse: its catch logs the
\* failure and the reply is parsed as it would have been
afterTracking(tracked, ai) == ai

\* the request resolves with a reply: the usage is recorded (tracked says
\* how that went), then the rest of calculateATSScoreWithAI and of
\* calculateATSScore
AIReply(reply, tracked) ==
  /\ pc = "awaitAI"
  /\ aiStatus = "pending"
  /\ aiStatus' = "settled"
  /\ aiReply' = <<reply>>
  /\ usageTracking' = tracked
  /\ Finish(afterTracking(tracked, scoreFromReply(reply)),
            afterAI(resumeData, jobDescription,
                    afterTracking(tracked, scoreFromReply(reply))))
  /\ UNCHANGED <<apiKey, resumeData, jobDescription, aiCalls, served>>
  /\ UNCHANGED accountVars

\* the request rejects (transport, authentication, rate limit): OpenAI.APIError
AIReject ==
  /\ pc = "awaitAI"
  /\ aiStatus = "pending"
  /\ aiStatus' = "settled"
  /\ Finish([threw |-> TRUE, error |-> "api", value |-> NoScore],
            afterAI(resumeData, jobDescription,
                    [threw |-> TRUE, error |-> "api", value |-> NoScore]))
  /\ UNCHANGED <<apiKey, resumeData, jobDescription, aiCalls, aiReply,
                 usageTracking, served>>
  /\ UNCHANGED accountVars

\* the request neither resolves nor rejects: the collaborator hangs, or the
\* client of the call has gone away
AIStall ==
  /\ pc = "awaitAI"
  /\ aiStatus = "pending"
  /\ aiStatus' = "stalled"
  /\ UNCHANGED <<apiKey, pc, resumeData, jobDescription, aiError, aiCalls,
                 ruleCalls, outcome, result, locals, aiReply, usageTracking,
                 served>>
  /\ UNCHANGED accountVars

\* the caller has its answer; the service is ready for the next call
Return ==
  /\ pc = "done"
  /\ pc' = "idle"
  /\ resumeData' = NoResume("absent")
  /\ jobDescription' = <<>>
  /\ aiStatus' = "none"
  /\ aiError' = ""
  /\ aiCalls' = 0
  /\ ruleCalls' = 0
  /\ outcome' = "none"
  /\ result' = <<>>
  /\ locals' = <<>>
  /\ aiReply' = <<>>
  /\ usageTracking' = "none"
  /\ served' = TRUE
  /\ UNCHANGED apiKey
  /\ UNCHANGED accountVars

Next ==
  \/ \E r \in Resumes, j \in JobDescriptions : CallEmpty(r, j)
  \/ \E r \in Resumes, j \in JobDescriptions : CallWithoutKey(r, j)
  \/ \E r \in Resumes, j \in JobDescriptions : CallAI(r, j)
  \* a reply JSON.parse accepts; one it rejects
  \/ \E reply \in {r \in Replies : r.whole # <<>>}, tracked \in {"recorded", "failed"} :
       AIReply(reply, tracked)
  \/ \E reply \in {r \in Replies : r.whole = <<>>}, tracked \in {"recorded", "failed"} :
       AIReply(reply, tracked)
  \/ AIReject
  \/ AIStall
  \/ Return

Spec == Init /\ [][Next]_vars

(***************************************************************************)
(* Properties of a call of calculateATSScore                               *)
(***************************************************************************)
\* the call has returned a result
Returned == pc = "done" /\ outcome = "returned" /\ Len(result) = 1

\* the fields of the result
ScoreFields ==
  {"score", "skillMatch", "missingSkills", "keywordImprovements",
   "experienceAlignment"}

\* resumeData is ResumeData as its type declares it: every experience entry
\* has its bullets
IsResumeData(data) ==
  /\ data.kind = "data"
  /\ \A i \in DOMAIN data.experience : data.experience[i].hasBullets

\* the ways the AI scorer fails
AIFailures == {"configuration", "api", "empty response", "parse", "type"}

\* the result came from the rule-based scorer
RulePath == Returned /\ ruleCalls = 1

\* the result came from the AI scorer
AIPath == Returned /\ aiCalls = 1 /\ ruleCalls = 0

\* text is empty or whitespace only
IsBlank(text) == \A i \in DOMAIN text : IsSpace(text[i])

\* no two entries of list are equal ignoring case
NoDuplicates(list) ==
  \A i, j \in DOMAIN list :
    i # j => toLowerCase(list[i]) # toLowerCase(list[j])

\* a and b agree field by field
SameFields(a, b) ==
  /\ DOMAIN a = ScoreFields
  /\ DOMAIN b = ScoreFields
  /\ \A f \in ScoreFields : a[f] = b[f]

\* the results the AI scorer returns for the replies it accepts
AIResults ==
  {scoreFromReply(reply).value :
     reply \in {accepted \in Replies : ~scoreFromReply(accepted).threw}}

\* x is an integer from 0 to 100
IsPercentage(x) == IsInteger(x) /\ x.num >= 0 /\ x.num <= 100

\* C1: however the AI scorer fails on a non-empty resume (no API key, a
\* rejected request, an empty reply, a reply that does not parse), the call
\* does not throw: it runs the rule-based scorer and returns a result with
\* all five fields
C1_FallbackOnFailure ==
  (pc = "done" /\ aiError # "" /\ IsResumeData(resumeData)) =>
    /\ aiError \in AIFailures
    /\ outcome = "returned"
    /\ ruleCalls = 1
    /\ Len(result) = 1
    /\ DOMAIN result[1] = ScoreFields
    /\ Len(locals) = 1

C1_Witness ==
  /\ Returned
  /\ aiError = "parse"
  /\ ruleCalls = 1
  /\ resumeData.kind = "data"
  /\ ~result[1].score.nan
  /\ result[1].score.num > 0
  /\ result[1].missingSkills # <<>>

\* C2: when the AI scorer fails for want of configuration, the call returns,
\* field by field, what the rule-based scorer returns for the same resume and
\* job description
C2_ConfigurationFailureEqualsRuleBased ==
  (pc = "done" /\ aiError = "configuration" /\ IsResumeData(resumeData)) =>
    /\ Len(result) = 1
    /\ SameFields(result[1], calculateATSScoreRuleBased(resumeData, jobDescription))

C2_Witness ==
  /\ Returned
  /\ aiError = "configuration"
  /\ resumeData.kind = "data"
  /\ result[1] # ZeroScore
  /\ result[1].keywordImprovements # <<>>

\* C3: in one call on a non-empty resume the AI scorer is attempted exactly
\* once; if it succeeds its result is returned and the rule-based scorer does
\* not run; the rule-based scorer runs only after the AI scorer has failed,
\* and then once
C3_StrategyOrder ==
  /\ aiCalls <= 1
  /\ ruleCalls <= 1
  /\ (pc \in {"awaitAI", "done"} /\ ~IsEmptyResume(resumeData)) => aiCalls = 1
  /\ pc = "awaitAI" => ruleCalls = 0
  /\ ruleCalls = 1 => (pc = "done" /\ aiCalls = 1 /\ aiError # "")
  /\ (pc = "done" /\ aiCalls = 1 /\ aiError = "") =>
       /\ ruleCalls = 0
       /\ locals = <<>>
       /\ outcome = "returned"
       /\ Len(result) = 1
       /\ result[1] \in AIResults
  /\ (pc = "done" /\ aiCalls = 1 /\ aiError # "") => ruleCalls = 1

C3_Witness ==
  /\ AIPath
  /\ aiError = ""
  /\ aiStatus = "settled"
  /\ locals = <<>>
  /\ result[1].score = Num(85)

\* C4: for an absent resume and for a resume without keys the call returns
\* zero scores and empty lists, whatever the job description, and runs
\* neither scorer
C4_EmptyResumeShortCircuits ==
  (pc = "done" /\ resumeData.kind \in {"absent", "empty"}) =>
    /\ outcome = "returned"
    /\ result = <<[score |-> Num(0), skillMatch |-> Num(0),
                   missingSkills |-> <<>>, keywordImprovements |-> <<>>,
                   experienceAlignment |-> Num(0)]>>
    /\ aiCalls = 0
    /\ ruleCalls = 0
    /\ aiStatus = "none"
    /\ aiError = ""

C4_Witness ==
  /\ Returned
  /\ resumeData.kind = "empty"
  /\ apiKey
  /\ Len(jobDescription) > 40
  /\ result = <<ZeroScore>>
  /\ aiCalls = 0

\* C5: every call returns in the end: a call waiting for the AI request can
\* always go on to its return, also when the request does not complete
C5_CallNeverBlocked ==
  pc = "awaitAI" => ENABLED (Next /\ pc' = "done")

C5_Blocked ==
  /\ pc = "awaitAI"
  /\ aiStatus = "stalled"
  /\ outcome = "none"
  /\ ~ENABLED Next

\* C6: on both paths the returned score, skillMatch and experienceAlignment
\* are integers from 0 to 100, never NaN
C6_ScoresArePercentages ==
  Returned =>
    /\ IsPercentage(result[1].score)
    /\ IsPercentage(result[1].skillMatch)
    /\ IsPercentage(result[1].experienceAlignment)

C6_NaNScore ==
  /\ RulePath
  /\ result[1].score.nan
  /\ result[1].experienceAlignment.nan
  /\ ~result[1].skillMatch.nan

\* C7: a returned result has at most 15 missing skills and at most 15 keyword
\* improvements, and on the rule-based path at most 10 keyword improvements
C7_ListsCapped ==
  Returned =>
    /\ Len(result[1].missingSkills) <= MaxMissingSkills
    /\ Len(result[1].keywordImprovements) <= MaxKeywordImprovements
    /\ RulePath => Len(result[1].keywordImprovements) <= TopImprovements

C7_UncappedMissingSkills ==
  /\ RulePath
  /\ Len(result[1].missingSkills) > MaxMissingSkills
  /\ Len(result[1].keywordImprovements) = TopImprovements

\* C8: no returned result has an empty or whitespace-only string among its
\* missing skills or its keyword improvements
C8_NoBlankEntries ==
  Returned =>
    /\ \A i \in DOMAIN result[1].missingSkills :
         ~IsBlank(result[1].missingSkills[i])
    /\ \A i \in DOMAIN result[1].keywordImprovements :
         ~IsBlank(result[1].keywordImprovements[i])

C8_BlankImprovement ==
  /\ AIPath
  /\ \E i \in DOMAIN result[1].keywordImprovements :
       result[1].keywordImprovements[i] = <<>>

\* C9: no returned result has two missing skills, or two keyword
\* improvements, that are equal ignoring case
C9_NoDuplicateEntries ==
  Returned =>
    /\ NoDuplicates(result[1].missingSkills)
    /\ NoDuplicates(result[1].keywordImprovements)

C9_DuplicateMissingSkill ==
  /\ AIPath
  /\ ~NoDuplicates(result[1].missingSkills)

\* C10: when the job description yields no keywords and no skills, the
\* rule-based scorer returns skillMatch 0 and its keyword overlap contributes
\* 0 to the score: neither is NaN and neither is 100
C10_NothingRequiredScoresZero ==
  (RulePath /\ Len(locals) = 1 /\ locals[1].jobKeywords = 0
            /\ locals[1].jobSkills = 0) =>
    /\ locals[1].skillMatch = Num(0)
    /\ result[1].skillMatch = Num(0)
    /\ locals[1].keywordOverlap = Num(0)
    /\ Times(locals[1].keywordOverlap, Rat(OverlapWeight, 10)) = Num(0)

C10_Witness ==
  /\ RulePath
  /\ locals[1].jobKeywords = 0
  /\ locals[1].jobSkills = 0
  /\ Len(jobDescription) > 0
  /\ Len(getResumeSkills(resumeData)) > 0
  /\ result[1].skillMatch = Num(0)

\* the reply lacks one of the numeric fields or one of the arrays
LacksField(value) ==
  \/ value.score.t = "missing"
  \/ value.skillMatch.t = "missing"
  \/ value.experienceAlignment.t = "missing"
  \/ ~value.missingSkills.isArray
  \/ ~value.keywordImprovements.isArray

\* C11: when the reply parses but lacks a required numeric field or array,
\* the AI scorer fails and the call returns the rule-based result
C11_IncompleteReplyFallsBack ==
  (/\ pc = "done"
   /\ Len(aiReply) = 1
   /\ Len(parsedValue(aiReply[1])) = 1
   /\ ~parsedValue(aiReply[1])[1].isNull
   /\ LacksField(parsedValue(aiReply[1])[1])) =>
    /\ aiError # ""
    /\ ruleCalls = 1

C11_DefaultsReturned ==
  /\ AIPath
  /\ Len(aiReply) = 1
  /\ Len(aiReply[1].whole) = 1
  /\ aiReply[1].whole[1].score.t = "missing"
  /\ aiError = ""
  /\ result[1].score = Num(0)

\* C12: a call with a resume that is not an object (a number, a string) ends
\* with an error for the caller and returns no result
C12_MalformedResumeIsInputError ==
  (pc = "done" /\ resumeData.kind \in {"number", "text"}) =>
    /\ outcome = "threw"
    /\ result = <<>>

C12_MalformedResumeScored ==
  /\ RulePath
  /\ resumeData.kind = "text"
  /\ aiError = "api"
  /\ Len(result[1].missingSkills) > 0

\* C13: for a well-formed resume, sparse ones included, the rule-based scorer
\* returns a result with its five fields, does not throw and leaves no
\* request pending
C13_RuleBasedTotal ==
  (pc = "done" /\ ruleCalls = 1 /\ IsResumeData(resumeData)) =>
    /\ outcome = "returned"
    /\ Len(result) = 1
    /\ DOMAIN result[1] = ScoreFields
    /\ aiStatus # "pending"

C13_Witness ==
  /\ RulePath
  /\ resumeData = NoResume("data")
  /\ Len(jobDescription) > 40
  /\ Len(result[1].missingSkills) > 0

\* the call ended with what run, a run of the rule-based scorer, returned
EndedWith(run) == result = <<run.result>> /\ locals = <<run.locals>>

Matched(candidate, required) ==
  \/ required \in Range(candidate)
  \/ \E c \in Range(candidate) : includes(c, required) \/ includes(required, c)

MatchedCount(candidate, requiredSkills) ==
  Cardinality({i \in DOMAIN requiredSkills : Matched(candidate, requiredSkills[i])})

\* C15: for a non-empty list of required skills the match percentage is
\* 100 * matched / required, matched by equality or by containment either
\* way; "react" and "react.js" match each other
C15_MatchPercentage ==
  /\ calculateSkillMatch(<<<<"r","e","a","c","t">>>>, <<<<"r","e","a","c","t",".","j","s">>>>) = Num(100)
  /\ calculateSkillMatch(<<<<"r","e","a","c","t",".","j","s">>>>, <<<<"r","e","a","c","t">>>>) = Num(100)
  /\ (RulePath /\ Len(locals[1].requiredSkills) > 0) =>
       locals[1].skillMatch =
         Rat(100 * MatchedCount(locals[1].candidateSkills, locals[1].requiredSkills),
             Len(locals[1].requiredSkills))

C15_Witness ==
  /\ RulePath
  /\ Contains(locals[1].candidateSkills, <<"r","e","a","c","t">>)
  /\ ~Contains(locals[1].candidateSkills, <<"r","e","a","c","t",".","j","s">>)
  /\ Contains(locals[1].requiredSkills, <<"r","e","a","c","t",".","j","s">>)
  /\ ~Contains(result[1].missingSkills, <<"r","e","a","c","t",".","j","s">>)
  /\ Less(Num(0), locals[1].skillMatch)
  /\ Less(locals[1].skillMatch, Num(100))

\* C16: for the skills Python and SQL and the job description "Required
\* Skills: Python, SQL, Docker, Kubernetes" the rule-based scorer reports
\* docker and kubernetes as missing and a skill match of 50
C16_TwoOfFourMatched ==
  (/\ RulePath
   /\ resumeData.skills = <<<<"P","y","t","h","o","n">>, <<"S","Q","L">>>>
   /\ jobDescription = <<"R","e","q","u","i","r","e","d"," ","S","k","i","l","l","s",":"," ","P","y","t","h","o","n",","," ","S","Q","L",","," ","D","o","c","k","e","r",","," ","K","u","b","e","r","n","e","t","e","s">>) =>
    /\ Contains(result[1].missingSkills, <<"d","o","c","k","e","r">>)
    /\ Contains(result[1].missingSkills, <<"k","u","b","e","r","n","e","t","e","s">>)
    /\ result[1].skillMatch = Num(50)

C16_ThreeOfSevenMatched ==
  /\ RulePath
  /\ resumeData.skills = <<<<"P","y","t","h","o","n">>, <<"S","Q","L">>>>
  /\ jobDescription = <<"R","e","q","u","i","r","e","d"," ","S","k","i","l","l","s",":"," ","P","y","t","h","o","n",","," ","S","Q","L",","," ","D","o","c","k","e","r",","," ","K","u","b","e","r","n","e","t","e","s">>
  /\ locals[1].jobSkills = 7
  /\ locals[1].skillMatch = Rat(300, 7)
  /\ result[1].skillMatch = Num(43)

\* C17: for a resume without experience entries the experience alignment is
\* 0, whatever the job description
C17_NoExperienceNoAlignment ==
  (RulePath /\ resumeData.kind = "data" /\ resumeData.experience = <<>>) =>
    /\ locals[1].experienceAlignment = Num(0)
    /\ result[1].experienceAlignment = Num(0)

C17_Witness ==
  /\ RulePath
  /\ resumeData.kind = "data"
  /\ resumeData.experience = <<>>
  /\ resumeData.skills # <<>>
  /\ locals[1].jobKeywords > 0
  /\ inferJobTitle(jobDescription) = <<"d","a","t","a"," ","e","n","g","i","n","e","e","r">>
  /\ result[1].experienceAlignment = Num(0)

\* C18: the missing skills are the required skills that are not counted as
\* matched, in the order of the required skills; matched and missing
\* together are all required skills
C18_MissingIsUnmatched ==
  RulePath =>
    /\ result[1].missingSkills =
         SelectSeq(locals[1].requiredSkills,
                   LAMBDA required : ~Matched(locals[1].candidateSkills, required))
    /\ MatchedCount(locals[1].candidateSkills, locals[1].requiredSkills)
         + Len(result[1].missingSkills) = Len(locals[1].requiredSkills)
    /\ Len(locals[1].requiredSkills) > 0 =>
         locals[1].skillMatch =
           Rat(100 * (Len(locals[1].requiredSkills) - Len(result[1].missingSkills)),
               Len(locals[1].requiredSkills))

C18_Witness ==
  /\ RulePath
  /\ Len(result[1].missingSkills) >= 2
  /\ Len(result[1].missingSkills) < Len(locals[1].requiredSkills) - 1
  /\ \E i \in DOMAIN locals[1].requiredSkills :
       /\ ~Contains(locals[1].candidateSkills, locals[1].requiredSkills[i])
       /\ Matched(locals[1].candidateSkills, locals[1].requiredSkills[i])

\* 100 * (keywords that are tokens) / (keywords), 0 without keywords
OverlapOf(keywords, tokens) ==
  IF keywords = <<>> THEN Num(0)
  ELSE Rat(100 * Cardinality({i \in DOMAIN keywords : keywords[i] \in tokens}),
           Len(keywords))

\* the integer s is x rounded to the nearest integer, halves upwards
RoundsTo(x, s) ==
  /\ ~x.nan
  /\ 2 * s * x.den <= 2 * x.num + x.den
  /\ 2 * x.num + x.den < 2 * (s + 1) * x.den

\* 0.4 * overlap + 0.4 * skill + 0.2 * alignment
Composite(overlap, skill, alignment) ==
  Plus(Plus(Times(Rat(2, 5), overlap), Times(Rat(2, 5), skill)),
       Times(Rat(1, 5), alignment))

\* the returned score is the composite of the unrounded sub-scores, rounded,
\* within 0..100; NaN if the composite is
ScoreIs(score, composite) ==
  IF composite.nan THEN score.nan
  ELSE /\ IsInteger(score)
       /\ RoundsTo(composite, score.num)
       /\ score.num >= 0
       /\ score.num <= 100

\* C19: the rule-based score is round(0.4 * keywordOverlap + 0.4 * skillMatch
\* + 0.2 * experienceAlignment) within 0..100, from the unrounded sub-scores,
\* and keywordOverlap is 100 * (job keywords among the tokens of the
\* normalized resume text) / (job keywords)
C19_CompositeScore ==
  RulePath =>
    /\ locals[1].keywordOverlap =
         OverlapOf(locals[1].keywords,
                   resumeWordSet(normalizeText(convertResumeDataToText(resumeData))))
    /\ ScoreIs(result[1].score,
               Composite(locals[1].keywordOverlap, locals[1].skillMatch,
                         locals[1].experienceAlignment))

C19_Witness ==
  /\ RulePath
  /\ ~result[1].score.nan
  /\ result[1].score.num > 0
  /\ locals[1].skillMatch.den > 1
  /\ locals[1].keywordOverlap # locals[1].skillMatch
  /\ locals[1].keywordOverlap # locals[1].experienceAlignment
  /\ Less(Num(0), locals[1].keywordOverlap)
  /\ Less(Num(0), locals[1].experienceAlignment)

\* the words of the inferred title that are longer than 3 characters
LongTitleWords(title) == SelectSeq(SplitSpace(title), LAMBDA w : Len(w) > 3)

\* 100 * (words that occur in the entry's lowercased title) / (words)
EntryTitleMatch(entry, words) ==
  Rat(100 * Cardinality({i \in DOMAIN words :
                           includes(toLowerCase(entry.title), words[i])}),
      Len(words))

\* the greatest of a non-empty set of numbers
Greatest(numbers) == CHOOSE x \in numbers : \A y \in numbers : ~Less(x, y)

\* the title match: 0 without an inferred title, else the greatest match of
\* an entry (0 / 0, NaN, if the title has no word longer than 3 characters)
TitleMatchOf(experience, title, words) ==
  IF title = <<>> THEN Num(0)
  ELSE IF words = <<>> THEN NaN
  ELSE Greatest({EntryTitleMatch(experience[i], words) : i \in DOMAIN experience})

\* 100 * (keywords that occur in the experience text) / (keywords)
KeywordMatchOf(text, keywords) ==
  IF keywords = <<>> THEN Num(0)
  ELSE Rat(100 * Cardinality({i \in DOMAIN keywords : includes(text, keywords[i])}),
           Len(keywords))

\* C20: with at least one experience entry the alignment is 0.4 * titleMatch
\* + 0.6 * keywordMatch: titleMatch the greatest share, over the entries, of
\* the inferred title's words longer than 3 characters found in the entry's
\* title (0 without an inferred title), keywordMatch the share of the job
\* keywords found in the lowercased experience text (0 without keywords)
C20_AlignmentScore ==
  (RulePath /\ resumeData.kind = "data" /\ Len(resumeData.experience) >= 1) =>
    locals[1].experienceAlignment =
      Plus(Times(Rat(2, 5),
                 TitleMatchOf(resumeData.experience, inferJobTitle(jobDescription),
                              LongTitleWords(inferJobTitle(jobDescription)))),
           Times(Rat(3, 5),
                 KeywordMatchOf(experienceTexts(resumeData.experience),
                                locals[1].keywords)))

C20_Witness ==
  /\ RulePath
  /\ resumeData.kind = "data"
  /\ Len(resumeData.experience) = 2
  /\ inferJobTitle(jobDescription) = <<"d","a","t","a"," ","e","n","g","i","n","e","e","r">>
  /\ locals[1].jobKeywords > 0
  /\ ~locals[1].experienceAlignment.nan
  /\ Less(Num(40), locals[1].experienceAlignment)
  /\ Less(locals[1].experienceAlignment, Num(100))

\* the tokens of a normalized text: its pieces between single spaces
TokensOf(normalized) ==
  IF normalized = <<>> THEN <<>>
  ELSE SplitAt(normalized, SelectSeq(Indices(normalized), LAMBDA i : normalized[i] = " "))

\* no entry occurs twice
NoRepeats(list) == \A i, k \in DOMAIN list : i # k => list[i] # list[k]

\* a token as the normalizer is to leave it
IsCleanToken(token) ==
  /\ Len(token) > 2
  /\ token \notin stopWords
  /\ \A i \in DOMAIN token : token[i] \in LowerLetters \cup Digits

\* C21: the normalized text is tokens joined by single spaces, each token
\* lowercase, of letters and digits only, longer than 2 and no stop word
C21_NormalizedTokens ==
  RulePath =>
    /\ normalizeText(jobDescription) =
         Join(TokensOf(normalizeText(jobDescription)), <<" ">>)
    /\ \A token \in Range(TokensOf(normalizeText(jobDescription))) :
         IsCleanToken(token)

C21_UnderscoreKept ==
  /\ RulePath
  /\ jobDescription = <<"B","u","i","l","d"," ","t","o","o","l","s"," ","i","n"," ","n","o","d","e","_","j","s",";"," ","t","o","o","l","s"," ","f","o","r"," ","e","-","m","a","i","l">>
  /\ normalizeText(jobDescription) = <<"b","u","i","l","d"," ","t","o","o","l","s"," ","n","o","d","e","_","j","s"," ","t","o","o","l","s"," ","m","a","i","l">>

\* the tokens that occur at least twice, are technical terms or are longer
\* than 5 characters
Qualifying(tokens) ==
  {t \in Range(tokens) :
     \/ Cardinality({i \in DOMAIN tokens : tokens[i] = t}) >= 2
     \/ t \in techTerms
     \/ Len(t) > 5}

C23_ParseStages ==
  (pc = "done" /\ Len(aiReply) = 1 /\ aiReply[1].form # "empty") =>
    /\ aiReply[1].whole # <<>> =>
         /\ aiError \in {"", "type"}
         /\ aiError = "" <=> ~aiReply[1].whole[1].isNull
         /\ aiError = "" => result = <<aiScoreResult(aiReply[1].whole[1])>>
    /\ (aiReply[1].whole = <<>> /\ aiReply[1].block # <<>>) =>
         /\ aiError = ""
         /\ result = <<aiScoreResult(aiReply[1].block[1])>>
    /\ (aiReply[1].whole = <<>> /\ aiReply[1].block = <<>>) =>
         /\ aiError = "parse"
         /\ ruleCalls = 1
    /\ aiError = "" <=> ruleCalls = 0

C23_Witness ==
  /\ AIPath
  /\ Len(aiReply) = 1
  /\ aiReply[1].whole = <<BaseValue>>
  /\ aiReply[1].block = <<BlockValue>>
  /\ result[1].score = Num(85)

\* the entries of a list field; a field that is not an array has none
ItemsOf(field) == IF field.isArray THEN field.items ELSE <<>>

\* the texts of entries, in order
TextsOf(items) == [i \in 1..Len(items) |-> items[i].text]

\* the first n entries of a list
FirstOf(list, n) == [i \in 1..(IF Len(list) < n THEN Len(list) ELSE n) |-> list[i]]

\* own, then the strings among the first 5 recommendations that are not in own
WithRecommendations(own, field) ==
  own \o TextsOf(SelectSeq(FirstOf(ItemsOf(field), 5),
                           LAMBDA item : item.isString /\ item.text \notin Range(own)))

OnlyBlankSkills(data) ==
  /\ data.kind = "data"
  /\ data.skills # <<>>
  /\ \A i \in DOMAIN data.skills : trim(data.skills[i]) = <<>>
  /\ \A i \in DOMAIN data.projects :
       \A k \in DOMAIN data.projects[i].technologies :
         trim(data.projects[i].technologies[k]) = <<>>

\* C29: candidate skills that are all blank match no required skill: the
\* skill match is 0 and every required skill is missing
C29_BlankSkillsMatchNothing ==
  (RulePath /\ OnlyBlankSkills(resumeData) /\ Len(locals[1].requiredSkills) > 0) =>
    /\ locals[1].skillMatch = Num(0)
    /\ result[1].skillMatch = Num(0)
    /\ result[1].missingSkills = locals[1].requiredSkills

C29_BlankSkillMatchesAll ==
  /\ RulePath
  /\ OnlyBlankSkills(resumeData)
  /\ locals[1].candidateSkills = <<<<>>>>
  /\ Len(locals[1].requiredSkills) >= 4
  /\ result[1].skillMatch = Num(100)
  /\ result[1].missingSkills = <<>>

\* C30: a failure to record the usage changes nothing: the call ends as the
\* reply alone decides, and the facade does not fall back because of it
C30_UsageFailureHarmless ==
  (pc = "done" /\ Len(aiReply) = 1) =>
    /\ usageTracking \in {"recorded", "failed"}
    /\ aiError = scoreFromReply(aiReply[1]).error
    /\ aiError = "" =>
         /\ ruleCalls = 0
         /\ outcome = "returned"
         /\ result = <<scoreFromReply(aiReply[1]).value>>
    /\ aiError # "usage"

C30_Witness ==
  /\ AIPath
  /\ usageTracking = "failed"
  /\ Len(aiReply) = 1
  /\ aiError = ""
  /\ ruleCalls = 0
  /\ result[1].score = Num(85)

(***************************************************************************)
(* The requests on subscriptions: each step is one await of a handler      *)
(***************************************************************************)
\* the user has registered: register has created the first subscription
Registered(user) == \E i \in DOMAIN subscriptions : subscriptions[i].user = user

\* UserSubscription.find({userId, status: ACTIVE})
ActiveOf(user) ==
  {i \in DOMAIN subscriptions :
     subscriptions[i].user = user /\ subscriptions[i].status = "active"}

\* new UserSubscription({...}) of createSubscription
NewSubscription(user, plan) ==
  [user |-> user, plan |-> plan, status |-> "active",
   usage |-> [resumes |-> 0, atsChecks |-> 0],
   left |-> [resumes |-> Plans[plan].maxResumes,
             atsChecks |-> Plans[plan].maxATSChecks]]

\* an increment that does not look at what is left
CanIncrementAlways(doc, counter) == TRUE

\* if (subscription.left.atsChecks > 0), if (subscription.left.resumes > 0)
CanIncrement(doc, counter) == doc.left[counter] > 0

\* if (subscription.left.x > 0) { subscription.usage.x += 1;
\* subscription.left.x -= 1 } is the "increment" branch below.
\* the handler once getOrCreateSubscription or createSubscription has
\* returned doc, up to its next await:
\*   phase "check"      canRunATSCheck / canCreateResume and the middleware
\*   phase "increment"  incrementATSUsage / incrementResumeUsage up to save
\*   phase "create"     the caller only wanted the subscription
AfterSubscription(handler, doc) ==
  CASE handler.phase = "check" ->
         IF doc.left[handler.kind] <= 0
         THEN [handler EXCEPT !.doc = <<doc>>, !.pc = "done", !.status = 403]
         ELSE [handler EXCEPT !.doc = <<doc>>, !.pc = "controller"]
    [] handler.phase = "increment" ->
         IF CanIncrement(doc, handler.kind)
         THEN [handler EXCEPT
                 !.doc = <<[doc EXCEPT !.usage[handler.kind] = @ + 1,
                                       !.left[handler.kind] = @ - 1]>>,
                 !.pc = "save"]
         ELSE [handler EXCEPT !.doc = <<doc>>, !.pc = "done", !.status = 200]
    [] OTHER -> [handler EXCEPT !.doc = <<doc>>, !.pc = "done", !.status = 200]

\* a request is taken by the first slot without one
Begin(h, handler) ==
  /\ handlers[h].pc = "idle"
  /\ \A other \in Handlers : other < h => handlers[other].pc # "idle"
  /\ requests < MaxRequests
  /\ requests' = requests + 1
  /\ handlers' = [handlers EXCEPT ![h] = handler]
  /\ UNCHANGED <<subscriptions, audit, orders>>
  /\ UNCHANGED scoreVars

\* POST /api/auth/register: the user is new, nobody else acts for them yet
Register(h, user) ==
  /\ handlers[h].pc = "idle"
  /\ \A other \in Handlers : other < h => handlers[other].pc # "idle"
  /\ ~Registered(user)
  /\ \A other \in Handlers : handlers[other].user # user
  /\ handlers' = [handlers EXCEPT ![h] =
                    [Idle EXCEPT !.kind = "register", !.user = user,
                                 !.phase = "create", !.pc = "findOne"]]
  /\ UNCHANGED <<subscriptions, audit, orders, requests>>
  /\ UNCHANGED scoreVars

\* POST /api/resume/ats-score, /upload, /generate: the limit middleware
\* starts; kind is the counter that limits the request, "atsChecks" or
\* "resumes"
RequestLimited(h, kind, user) ==
  /\ Registered(user)
  /\ Begin(h, [Idle EXCEPT !.kind = kind, !.user = user, !.phase = "check",
                           !.pc = "findOne"])

\* PUT of the admin routes: updateSubscriptionPlan(id, planId)
RequestPlanChange(h, user, plan) ==
  /\ Registered(user)
  /\ Begin(h, [Idle EXCEPT !.kind = "admin", !.user = user, !.plan = plan,
                           !.phase = "create", !.pc = "updateMany"])

\* POST /api/payment/webhook for an order, with its payment status
Webhook(h, order, paymentStatus) ==
  /\ Registered(Orders[order].user)
  /\ Begin(h, [Idle EXCEPT !.kind = "webhook", !.order = order,
                           !.user = Orders[order].user,
                           !.plan = (IF paymentStatus = "PAID"
                                     THEN Orders[order].plan ELSE "none"),
                           !.phase = "create", !.pc = "order"])

\* handleWebhook for a successful payment: the order is saved as paid, then
\* updateSubscriptionPlan is called, whatever the order's status was
PayOrder(h) ==
  /\ handlers[h].pc = "order"
  /\ handlers[h].plan # "none"
  /\ orders' = [orders EXCEPT ![handlers[h].order] = "paid"]
  /\ handlers' = [handlers EXCEPT ![h].pc = "updateMany"]
  /\ UNCHANGED <<subscriptions, audit, requests>>
  /\ UNCHANGED scoreVars

\* handleWebhook for a failed payment
FailOrder(h) ==
  /\ handlers[h].pc = "order"
  /\ handlers[h].plan = "none"
  /\ orders' = [orders EXCEPT ![handlers[h].order] = "failed"]
  /\ handlers' = [handlers EXCEPT ![h].pc = "done", ![h].status = 200]
  /\ UNCHANGED <<subscriptions, audit, requests>>
  /\ UNCHANGED scoreVars

\* getOrCreateSubscription: findOne returns an active subscription
FindActive(h) ==
  /\ handlers[h].pc = "findOne"
  /\ \E i \in ActiveOf(handlers[h].user) :
       handlers' = [handlers EXCEPT ![h] = AfterSubscription(handlers[h],
                            [id |-> i, plan |-> subscriptions[i].plan,
                             usage |-> subscriptions[i].usage,
                             left |-> subscriptions[i].left])]
  /\ UNCHANGED <<subscriptions, audit, orders, requests>>
  /\ UNCHANGED scoreVars

\* getOrCreateSubscription: findOne returns null, the FREE plan is looked up
FindNone(h) ==
  /\ handlers[h].pc = "findOne"
  /\ ActiveOf(handlers[h].user) = {}
  /\ handlers' = [handlers EXCEPT ![h].plan = "FREE", ![h].pc = "updateMany"]
  /\ UNCHANGED <<subscriptions, audit, orders, requests>>
  /\ UNCHANGED scoreVars

\* createSubscription: updateMany expires the user's active subscriptions
UpdateMany(h) ==
  /\ handlers[h].pc = "updateMany"
  /\ subscriptions' =
       [i \in DOMAIN subscriptions |->
          IF i \in ActiveOf(handlers[h].user)
          THEN [subscriptions[i] EXCEPT !.status = "expired"]
          ELSE subscriptions[i]]
  /\ handlers' = [handlers EXCEPT ![h].pc = "insert"]
  /\ UNCHANGED <<audit, orders, requests>>
  /\ UNCHANGED scoreVars

\* createSubscription: subscription.save() inserts the new subscription
Insert(h) ==
  /\ handlers[h].pc = "insert"
  /\ subscriptions' =
       Append(subscriptions, NewSubscription(handlers[h].user, handlers[h].plan))
  /\ audit' = Append(audit, [origin |-> IF handlers[h].kind = "webhook"
                                        THEN handlers[h].order
                                        ELSE handlers[h].kind,
                             scored |-> 0])
  /\ handlers' =
       [handlers EXCEPT ![h] =
          AfterSubscription(handlers[h],
                            [id |-> Len(subscriptions) + 1,
                             plan |-> handlers[h].plan,
                             usage |-> NewSubscription(handlers[h].user,
                                                       handlers[h].plan).usage,
                             left |-> NewSubscription(handlers[h].user,
                                                      handlers[h].plan).left])]
  /\ UNCHANGED <<orders, requests>>
  /\ UNCHANGED scoreVars

\* the controller of /ats-score: resumeService.calculateATSScore has
\* returned, incrementATSUsage is called
Score(h) ==
  /\ handlers[h].pc = "controller"
  /\ handlers[h].kind = "atsChecks"
  /\ audit' = [audit EXCEPT ![handlers[h].doc[1].id].scored = @ + 1]
  /\ handlers' = [handlers EXCEPT ![h].phase = "increment", ![h].pc = "findOne"]
  /\ UNCHANGED <<subscriptions, orders, requests>>
  /\ UNCHANGED scoreVars

\* the controller of /upload or /generate: the resume is saved,
\* incrementResumeUsage is called
SaveResume(h) ==
  /\ handlers[h].pc = "controller"
  /\ handlers[h].kind = "resumes"
  /\ handlers' = [handlers EXCEPT ![h].phase = "increment", ![h].pc = "findOne"]
  /\ UNCHANGED <<subscriptions, audit, orders, requests>>
  /\ UNCHANGED scoreVars

\* the controller answers 400: no jobDescription, neither file nor text
BadRequest(h) ==
  /\ handlers[h].pc = "controller"
  /\ handlers' = [handlers EXCEPT ![h].pc = "done", ![h].status = 400]
  /\ UNCHANGED <<subscriptions, audit, orders, requests>>
  /\ UNCHANGED scoreVars

\* subscription.save() of an increment: the two modified paths are written
\* to the document, whatever it holds by now
SaveUsage(h) ==
  /\ handlers[h].pc = "save"
  /\ subscriptions' =
       [subscriptions EXCEPT
          ![handlers[h].doc[1].id].usage[handlers[h].kind] =
             handlers[h].doc[1].usage[handlers[h].kind],
          ![handlers[h].doc[1].id].left[handlers[h].kind] =
             handlers[h].doc[1].left[handlers[h].kind]]
  /\ handlers' = [handlers EXCEPT ![h].pc = "done", ![h].saved = TRUE,
                                  ![h].status = 200]
  /\ UNCHANGED <<audit, orders, requests>>
  /\ UNCHANGED scoreVars

\* the response is sent
Respond(h) ==
  /\ handlers[h].pc = "done"
  /\ handlers' = [handlers EXCEPT ![h] = Idle]
  /\ UNCHANGED <<subscriptions, audit, orders, requests>>
  /\ UNCHANGED scoreVars

AccountInit ==
  /\ Init
  /\ apiKey = TRUE

AccountNext ==
  \E h \in Handlers :
    \/ \E user \in Users : Register(h, user)
    \/ \E kind \in {"atsChecks", "resumes"}, user \in Users : RequestLimited(h, kind, user)
    \/ \E user \in Users, plan \in DOMAIN Plans : RequestPlanChange(h, user, plan)
    \/ \E order \in DOMAIN Orders, paymentStatus \in {"PAID", "FAILED"} :
         Webhook(h, order, paymentStatus)
    \/ PayOrder(h)
    \/ FailOrder(h)
    \/ FindActive(h)
    \/ FindNone(h)
    \/ UpdateMany(h)
    \/ Insert(h)
    \/ Score(h)
    \/ SaveResume(h)
    \/ BadRequest(h)
    \/ SaveUsage(h)
    \/ Respond(h)

AccountSpec == AccountInit /\ [][AccountNext]_vars

(***************************************************************************)
(* The claims on subscriptions                                             *)
(***************************************************************************)
\* C25: under no interleaving of a user's ATS requests are more scoring
\* operations carried out under a subscription than its plan's maxATSChecks
C25_ScoringWithinLimit ==
  \A i \in DOMAIN subscriptions :
    audit[i].scored <= Plans[subscriptions[i].plan].maxATSChecks

C25_ScoredBeyondLimit ==
  \E i \in DOMAIN subscriptions :
    /\ subscriptions[i].plan = "FREE"
    /\ subscriptions[i].status = "active"
    /\ audit[i].scored = 3
    /\ subscriptions[i].usage.atsChecks = 2
    /\ subscriptions[i].left.atsChecks = 0

\* C26: after any interleaving of getOrCreateSubscription, createSubscription
\* and updateSubscriptionPlan each user has at most one active subscription
C26_OneActivePerUser ==
  \A user \in Users : Cardinality(ActiveOf(user)) <= 1

C26_TwoActive ==
  \E i, k \in DOMAIN subscriptions :
    /\ i < k
    /\ subscriptions[i].user = subscriptions[k].user
    /\ subscriptions[i].status = "active"
    /\ subscriptions[k].status = "active"
    /\ \A h \in Handlers : handlers[h].pc = "idle"

\* what is left is not negative, and used plus left is the plan's limit
Balanced(subscription) ==
  /\ subscription.left.resumes >= 0
  /\ subscription.left.atsChecks >= 0
  /\ subscription.usage.resumes + subscription.left.resumes
       = Plans[subscription.plan].maxResumes
  /\ subscription.usage.atsChecks + subscription.left.atsChecks
       = Plans[subscription.plan].maxATSChecks

\* an increment ends after it has read a subscription with nothing left
IncrementSkipped ==
  \E h \in Handlers :
    /\ handlers[h].phase = "increment"
    /\ handlers[h].pc # "done"
    /\ handlers'[h].pc = "done"
    /\ ~handlers'[h].saved

\* C27: for every subscription, after any increments, what is left is never
\* negative and used plus left is the plan's limit, for resumes and for ATS
\* checks; an increment with nothing left changes no counter
C27_CountersBalanced ==
  /\ [](\A i \in DOMAIN subscriptions : Balanced(subscriptions[i]))
  /\ [][IncrementSkipped => subscriptions' = subscriptions]_vars

C27_Witness ==
  /\ \E h \in Handlers :
       /\ handlers[h].kind = "resumes"
       /\ handlers[h].phase = "increment"
       /\ handlers[h].pc = "done"
       /\ ~handlers[h].saved
       /\ handlers[h].doc[1].left.resumes = 0
       /\ subscriptions[handlers[h].doc[1].id].usage.resumes = 1
  /\ \E i \in DOMAIN subscriptions : subscriptions[i].usage.atsChecks = 1

\* C28: the webhook of a paid order, delivered again, creates no further
\* subscription
C28_WebhookIdempotent ==
  \A order \in DOMAIN Orders :
    Cardinality({i \in DOMAIN subscriptions : audit[i].origin = order}) <= 1

C28_CountersReset ==
  \E i, k \in DOMAIN subscriptions :
    /\ i < k
    /\ audit[i].origin = "o1"
    /\ audit[k].origin = "o1"
    /\ subscriptions[i].status = "expired"
    /\ subscriptions[i].usage.atsChecks = 1
    /\ subscriptions[k].status = "active"
    /\ subscriptions[k].usage.atsChecks = 0
    /\ orders["o1"] = "paid"

====
